---- MODULE Spec2Model ----
(***************************************************************************)
(* Model of the replay bot's audio core: the circular packet buffer        *)
(* (package circular), the OGG/Opus encoder (package ogg) and the replay   *)
(* file creator (package replayfile).                                      *)
(*                                                                         *)
(* Three specifications share the variables:                               *)
(*   Spec      - the buffer under its RWMutex: the listener goroutine      *)
(*               calling Add, the manager goroutine calling Reset, replay  *)
(*               goroutines running a WithIterator callback.               *)
(*   SpecBuild - one Creator.Create over a buffer filled by Add.           *)
(*   SpecEnc   - one ogg.Encoder writing pages to a sink.                  *)
(*                                                                         *)
(* Times are in milliseconds, sample counts in PCM samples.                *)
(***************************************************************************)
EXTENDS Integers, Sequences, FiniteSets, TLC

(***************************************************************************)
(* Bounds of the model.                                                    *)
(***************************************************************************)
\* Capacity of the circular buffer (the program uses 90000 slots).
SIZE == 3

\* Number of Reset calls the manager goroutine makes in Spec.
MaxResets == 1

\* Packets the listener adds in Spec: enough to fill the buffer and wrap the
\* write cursor.
MaxAdds == SIZE + 2

\* Packets added before the replay is built in SpecBuild.
MaxBuildAdds == 3

\* Times the clock advances by one frame while a replay is being built.
MaxTicks == 1

\* Audio packets encoded after the header pages in SpecEnc.
MaxEncodes == 2

(***************************************************************************)
(* Program constants.                                                      *)
(***************************************************************************)
\* 20 ms frames (FrameLengthNs = 20 * 1e6 ns).
FrameLengthMs == 20

SampleRate == 48000

\* FrameSize = FrameLengthNs * SampleRate / 1e9.
FrameSize == (FrameLengthMs * SampleRate) \div 1000

(***************************************************************************)
(* Input domains.                                                          *)
(***************************************************************************)
SSRCs == {1, 2}

\* The payload of the k-th packet received, from speaker ssrc (no payload
\* equals the silent frame).
PayloadOf(ssrc, k) == <<ssrc, k>>

\* RTP timestamp of a speaker's first packet.
FirstTimestamps == {96000}

\* Frames lost between two packets of a speaker.
MissedFrames == {0, 2}

\* Time between the arrival of two packets, in ms.
ArrivalGaps == {0, 20}

\* recordingDuration values, in ms.
Durations == {20, 1000}

\* Write calls after which the sink may start failing in SpecEnc: a page
\* takes at least ten, so these cut a page short at its start or inside its
\* header, and the second header page inside its header.
FaultPoints == {0, 5, 15}

\* The same for the sink of a speaker's file during one loop pass of a build:
\* at the first write of the pass, and inside the third page the pass writes
\* (the first audio page after the two header pages of a new file).
BuildFaultPoints == {0, 25}

\* The most packets of the speaker of SpecSync.
MaxSyncPackets == 4

\* The most calls of Create that return in SpecTwice.
MaxBuilds == 2

\* The most connections to a voice channel in SpecListen.
MaxConnects == 2

\* The most join requests the Manager handles.
MaxJoins == 4

\* The most Ready events delivered while one Bot.Run is in progress.
MaxReadys == 2

\* The calls of runBot that are counted; later ones count as the last.
MaxStarts == 5

\* The most AddSegment calls made on the page of SpecPage.
MaxSegmentCalls == 2

\* Lengths of the segments passed to AddSegment in SpecPage.
SegmentLengths == {0, 3, 255, 256}

\* Lengths of the payloads encoded in SpecPage: two full segments, 255 full
\* segments, and 255 full segments and one more byte.
LongPayloadLengths == {510, 65025, 65026}

\* Lengths of the payloads encoded in SpecEnc.
PayloadLengths == {0, 3, 255, 510}

\* Granule positions passed to Encode in SpecEnc.
GranulePositions == {-960, 960}

Readers == {"r1", "r2"}

Writers == {"listener", "manager"}

None == "none"

Min(a, b) == IF a <= b THEN a ELSE b

\* The value of Body on v: v is computed once and named in Body.
With(v, Body(_)) == Body(v)

(***************************************************************************)
(* circular.AudioPacket and the zero value of circular.Buffer.             *)
(***************************************************************************)
AudioPacket(t, ssrc, pcm, opus) ==
    [Time |-> t, SSRC |-> ssrc, PCMIndex |-> pcm, Opus |-> opus]

ZeroPacket == AudioPacket(0, 0, 0, <<>>)

EmptyBuffer == [i \in 0..(SIZE - 1) |-> ZeroPacket]

VARIABLES
    \* circular.Buffer
    buffer,        \* [SIZE]AudioPacket, indexed from 0
    size,
    nextPosition,
    \* sync.RWMutex embedded in the Buffer
    rwWriter,      \* the writer that has passed Lock()'s writer mutex, or None
    rwReaders,     \* the readers holding RLock
    \* goroutines
    pcW,           \* per writer: "idle", "lock", "drain", "locked", "move"
    argW,          \* the packet the listener is adding
    pcR,           \* per reader: "idle", "cb", "panic"
    iter,          \* per reader: its circular.Iterator (position, count)
    yielded,       \* per reader: the packets Next has returned in this callback
    \* environment
    clock,         \* time.Now(), in ms
    \* history
    added,         \* every packet Add has stored, in order
    sinceReset,    \* number of Adds since the most recent Reset
    resets,        \* number of Resets so far
    snap,          \* per reader: added/sinceReset/resets/channel when RLock was acquired
    rtp,           \* per speaker: <<>> or <<the timestamp of its last packet>>
    \* files and encoders
    fs,            \* the bytes of each file created, by file number
    calls,         \* per file: the bitstreamEncoder.Encode calls made on it
    encoder,       \* SpecEnc: <<>> or <<the bitstreamEncoder of the Encoder>>
    encPc,         \* SpecEnc: "new", "ready", "failed", "panicked"
    \* Creator.Create
    bpc,           \* "fill", "loop", "mixed", "done"
    bIter,         \* the iterator handed to create
    recordingDuration,
    streamStartTime, \* <<>> (nil) or <<time>>
    streams,       \* map ssrc -> streamState
    files,         \* the files slice of create
    result,        \* what Create returned: "" while running, "nil", "NoAudioData",
                   \* "panic" or the message of the error
    mixed,         \* the file lists ffmpeg was run on
    removed,       \* the files os.Remove has deleted
    seen,          \* the packets read, each with its age when it was filtered
    ticks,         \* times the clock advanced during the build
    \* opusIdentificationHeader / opusCommentHeader
    header,        \* the header value Bytes() was last called on, <<>> before
    packet,        \* the bytes it returned
    \* voicechannel.Manager
    channel,       \* the channel of the voice connection, numbered from 1
    capturedIn,    \* payload -> the channel the bot was in when it received it
    \* ogg.page
    openPage,      \* SpecPage: <<>> or <<the page under construction>>
    segmentArg,    \* the segment AddSegment was last called with
    pagePc,        \* "none", "open", "panicked"
    segCalls,      \* the AddSegment calls made on the page
    \* SpecSync: one speaker's stream in createStreamFiles
    syncStream,    \* <<>> or <<the streamState of the speaker>>
    syncRtp,       \* the uint32 timestamp of the speaker's last packet
    syncOut,       \* the Encode calls made on the stream: silent or real, granule
    \* SpecBot: the Bot, the guild's state and the Manager's channel
    voiceStates,   \* guild.VoiceStates: at most one voice state for each user
    joinAsk,       \* the value waiting on m.voiceChannelToJoin, NoAsk if none
    currentChannel, \* Manager.CurrentChannelID(): NoChannel when it is nil
    request,       \* <<>> or <<the interaction being handled, with the channel read>>
    handled,       \* <<>> or <<the interaction last handled and what became of it>>
    \* SpecTwice: Creator.Create called again
    earlier,       \* the calls of Create that have returned, in order
    \* SpecListen: the listener goroutines of the Manager
    stopListenersCh, \* m.stopListenersCh: 0 for nil, or the number of a channel
    closed,        \* the stop channels that have been closed
    listeners,     \* one goroutine per connect: where it is, the channel it waits on
    opusRecv,      \* per voice connection: the packets waiting on c.OpusRecv
    issued,        \* the join requests the Manager handled: what was asked, what it did
    process        \* SpecRun: main, run, runBot and Bot.Run, and the context of run

lockVars == <<rwWriter, rwReaders>>

procVars == <<pcW, argW, pcR, iter, yielded, snap>>

bufVars == <<buffer, size, nextPosition>>

histVars == <<added, sinceReset, resets>>

fileVars == <<fs, calls>>

encVars == <<encoder, encPc>>

buildVars == <<bpc, bIter, recordingDuration, streamStartTime, streams, files,
               result, mixed, removed, seen, ticks>>

hdrVars == <<header, packet>>

chanVars == <<channel, capturedIn>>

pageVars == <<openPage, segmentArg, pagePc, segCalls>>

syncVars == <<syncStream, syncRtp, syncOut>>

botVars == <<voiceStates, joinAsk, currentChannel, request, handled>>

\* The variables of the specifications that follow SpecPage.
listenVars == <<stopListenersCh, closed, listeners, opusRecv>>

tailVars == <<earlier, listenVars, issued, process>>

auxVars == <<syncVars, botVars, tailVars>>

\* The variables of the specifications up to SpecPage.
baseVars == <<bufVars, lockVars, procVars, clock, histVars, rtp, fileVars, encVars,
              buildVars, hdrVars, chanVars, pageVars>>

vars == <<bufVars, lockVars, procVars, clock, histVars, rtp, fileVars, encVars,
          buildVars, hdrVars, chanVars, pageVars, auxVars>>

NoIterator == [position |-> 0, count |-> 0]

\* A nil *string channel ID: no voice channel.
NoChannel == "nil"

\* Nothing waits on m.voiceChannelToJoin.
NoAsk == "none"

\* No exit status: the process runs.
NoStatus == -1

\* main has called run, which has made the Bot and the context and is at
\* the head of its loop.
NotStarted ==
    [pc |-> "loop", ctxDone |-> FALSE, onReadyCh |-> "none", closes |-> 0,
     joined |-> FALSE, waited |-> FALSE, err |-> "nil", starts |-> 0,
     status |-> NoStatus]

NoSnap == [total |-> 0, n |-> 0, resets |-> 0, channel |-> 1]

Init ==
    /\ buffer = EmptyBuffer
    /\ size = 0
    /\ nextPosition = 0
    /\ rwWriter = None
    /\ rwReaders = {}
    /\ pcW = [w \in Writers |-> "idle"]
    /\ argW = ZeroPacket
    /\ pcR = [r \in Readers |-> "idle"]
    /\ iter = [r \in Readers |-> NoIterator]
    /\ yielded = [r \in Readers |-> <<>>]
    /\ clock = 0
    /\ added = <<>>
    /\ sinceReset = 0
    /\ resets = 0
    /\ snap = [r \in Readers |-> NoSnap]
    /\ rtp = [s \in SSRCs |-> <<>>]
    /\ fs = <<>>
    /\ calls = <<>>
    /\ encoder = <<>>
    /\ encPc = "new"
    /\ bpc = "fill"
    /\ bIter = [position |-> 0, count |-> 0]
    /\ recordingDuration = 0
    /\ streamStartTime = <<>>
    /\ streams = <<>>
    /\ files = <<>>
    /\ result = ""
    /\ mixed = <<>>
    /\ removed = {}
    /\ seen = <<>>
    /\ ticks = 0
    /\ header = <<>>
    /\ packet = <<>>
    /\ channel = 1
    /\ capturedIn = <<>>
    /\ openPage = <<>>
    /\ segmentArg = <<>>
    /\ pagePc = "none"
    /\ segCalls = 0
    /\ syncStream = <<>>
    /\ syncRtp = 0
    /\ syncOut = <<>>
    /\ voiceStates = {}
    /\ joinAsk = NoAsk
    /\ currentChannel = NoChannel
    /\ request = <<>>
    /\ handled = <<>>
    /\ earlier = <<>>
    /\ stopListenersCh = 0
    /\ closed = {}
    /\ listeners = <<>>
    /\ opusRecv = <<>>
    /\ issued = <<>>
    /\ process = NotStarted

(***************************************************************************)
(* sync.RWMutex.  Lock() first takes the writer mutex and announces the    *)
(* writer, which blocks new readers, then waits for the active readers to  *)
(* leave.  RLock() blocks while a writer is announced or holds the lock.   *)
(***************************************************************************)
\* An unrecovered panic ends the program: no goroutine takes a further step.
Running == \A r \in Readers : pcR[r] # "panic"

CanAnnounce == rwWriter = None

\* Mutant: a writer that does not wait for the active readers to leave.
CanEnterAlways == TRUE

CanEnter == rwReaders = {}

\* Mutant: an RLock that does not wait behind an announced writer.
CanRLockAlways == TRUE

\* RLock blocks while readerCount is negative, that is once a writer has
\* announced itself.
CanRLock == rwWriter = None

\* Lock(), first half: pass the writer mutex and announce.
LockAnnounce(w) ==
    /\ Running
    /\ pcW[w] = "lock"
    /\ CanAnnounce
    /\ rwWriter' = w
    /\ pcW' = [pcW EXCEPT ![w] = "drain"]
    /\ UNCHANGED <<bufVars, rwReaders, argW, pcR, iter, yielded, snap, clock, histVars, rtp,
                   fileVars, encVars, hdrVars, pageVars, auxVars, chanVars, buildVars>>

\* Lock(), second half: the active readers have left.
LockAcquire(w) ==
    /\ Running
    /\ pcW[w] = "drain"
    /\ rwWriter = w
    /\ CanEnter
    /\ pcW' = [pcW EXCEPT ![w] = "locked"]
    /\ UNCHANGED <<bufVars, lockVars, argW, pcR, iter, yielded, snap, clock, histVars, rtp,
                   fileVars, encVars, hdrVars, pageVars, auxVars, chanVars, buildVars>>

(***************************************************************************)
(* Buffer.Add                                                              *)
(***************************************************************************)
\* The body of Add, between Lock and Unlock.
AddSlot(buf, pos, pkt) == [buf EXCEPT ![pos] = pkt]

\* Mutant: the size stops growing one slot early.
AddSizeShort(sz) == IF sz < SIZE - 1 THEN sz + 1 ELSE sz

AddSize(sz) == IF sz < SIZE THEN sz + 1 ELSE sz

AddNextPosition(pos) == IF pos + 1 >= SIZE THEN 0 ELSE pos + 1

\* The timestamp of the next packet of a speaker: its first one starts at
\* `first`, a later one follows the last by `missed` lost frames.
NextTimestamp(ssrc, first, missed) ==
    IF rtp[ssrc] = <<>> THEN first ELSE rtp[ssrc][1] + (missed + 1) * FrameSize

\* The listener goroutine receives a packet from OpusRecv and calls
\* Add(time.Now(), pkt); the arguments are evaluated before Lock.  Speakers
\* are numbered in the order in which they are first heard.
ListenerRecv(ssrc, first, missed, dt) ==
    /\ Running
    /\ pcW["listener"] = "idle"
    /\ Len(added) < MaxAdds
    /\ \A s \in SSRCs : s < ssrc => rtp[s] # <<>>
    /\ clock' = clock + dt
    /\ argW' = AudioPacket(clock', ssrc, NextTimestamp(ssrc, first, missed),
                           PayloadOf(ssrc, Len(added) + 1))
    /\ rtp' = [rtp EXCEPT ![ssrc] = <<argW'.PCMIndex>>]
    /\ pcW' = [pcW EXCEPT !["listener"] = "lock"]
    /\ capturedIn' = (argW'.Opus :> channel) @@ capturedIn
    /\ UNCHANGED <<bufVars, lockVars, pcR, iter, yielded, snap, histVars, fileVars,
                   encVars, hdrVars, pageVars, auxVars, channel, buildVars>>

AddBody ==
    /\ Running
    /\ pcW["listener"] = "locked"
    /\ buffer' = AddSlot(buffer, nextPosition, argW)
    /\ size' = AddSize(size)
    /\ nextPosition' = AddNextPosition(nextPosition)
    /\ rwWriter' = None
    /\ pcW' = [pcW EXCEPT !["listener"] = "idle"]
    /\ added' = Append(added, argW)
    /\ sinceReset' = sinceReset + 1
    /\ UNCHANGED <<rwReaders, argW, pcR, iter, yielded, snap, clock, resets, rtp, fileVars,
                   encVars, hdrVars, pageVars, auxVars, chanVars, buildVars>>

(***************************************************************************)
(* Buffer.Reset                                                            *)
(***************************************************************************)
\* Manager.changeChannel for a channel other than the current one, up to
\* its call of m.audioBuffer.Reset().
ResetCall ==
    /\ Running
    /\ pcW["manager"] = "idle"
    /\ resets < MaxResets
    /\ pcW' = [pcW EXCEPT !["manager"] = "lock"]
    /\ UNCHANGED <<bufVars, lockVars, argW, pcR, iter, yielded, snap, clock, histVars, rtp,
                   fileVars, encVars, hdrVars, pageVars, auxVars, chanVars, buildVars>>

\* Mutant: a Reset that rewinds the cursor but keeps the size.
ResetBodyKeepSize ==
    /\ Running
    /\ pcW["manager"] = "locked"
    /\ nextPosition' = 0
    /\ rwWriter' = None
    /\ pcW' = [pcW EXCEPT !["manager"] = "move"]
    /\ sinceReset' = 0
    /\ resets' = resets + 1
    /\ UNCHANGED <<buffer, size, rwReaders, argW, pcR, iter, yielded, snap, clock,
                   added, rtp, fileVars, encVars, hdrVars, pageVars, auxVars, chanVars, buildVars>>

ResetBody ==
    /\ Running
    /\ pcW["manager"] = "locked"
    /\ size' = 0
    /\ nextPosition' = 0
    /\ rwWriter' = None
    /\ pcW' = [pcW EXCEPT !["manager"] = "move"]
    /\ sinceReset' = 0
    /\ resets' = resets + 1
    /\ UNCHANGED <<buffer, rwReaders, argW, pcR, iter, yielded, snap, clock, added, rtp,
                   fileVars, encVars, hdrVars, pageVars, auxVars, chanVars, buildVars>>

\* Manager.changeChannel after Reset returned: the voice connection is moved
\* to the other channel, m.CurrentChannel().ChangeChannel(channelID, ...).
ChangeChannel ==
    /\ Running
    /\ pcW["manager"] = "move"
    /\ channel' = channel + 1
    /\ pcW' = [pcW EXCEPT !["manager"] = "idle"]
    /\ UNCHANGED <<bufVars, lockVars, argW, pcR, iter, yielded, snap, clock, histVars, rtp,
                   fileVars, encVars, hdrVars, pageVars, auxVars, capturedIn, buildVars>>

(***************************************************************************)
(* Buffer.WithIterator and the Iterator                                    *)
(***************************************************************************)
\* Mutant: an iterator that always starts at slot 0.
StartPositionZero(next, sz) == 0

\* position := b.nextPosition - b.size; if position < 0 { position += SIZE }
StartPosition(next, sz) == IF next - sz < 0 THEN next - sz + SIZE ELSE next - sz

NewIterator(next, sz) == [position |-> StartPosition(next, sz), count |-> sz]

\* Mutant: an iterator that reports a packet when none is left.
HasNextInclusive(it) == it.count >= 0

\* return i.count > 0
HasNext(it) == it.count > 0

\* The iterator after Next: position advances cyclically, count drops.
IterAdvance(it) ==
    [position |-> IF it.position + 1 >= SIZE THEN 0 ELSE it.position + 1,
     count |-> it.count - 1]

\* RLock, then the callback is entered with a fresh iterator.
WithIteratorBegin(r) ==
    /\ Running
    /\ pcR[r] = "idle"
    /\ CanRLock
    /\ rwReaders' = rwReaders \cup {r}
    /\ iter' = [iter EXCEPT ![r] = NewIterator(nextPosition, size)]
    /\ yielded' = [yielded EXCEPT ![r] = <<>>]
    /\ pcR' = [pcR EXCEPT ![r] = "cb"]
    /\ snap' = [snap EXCEPT ![r] =
                  [total |-> Len(added), n |-> sinceReset, resets |-> resets,
                   channel |-> channel]]
    /\ UNCHANGED <<bufVars, rwWriter, pcW, argW, clock, histVars, rtp, fileVars, encVars, hdrVars, pageVars, auxVars, chanVars,
                   buildVars>>

\* The callback's loop body: for it.HasNext() { it.Next() }.
IterNext(r) ==
    /\ Running
    /\ pcR[r] = "cb"
    /\ HasNext(iter[r])
    /\ yielded' = [yielded EXCEPT ![r] = Append(@, buffer[iter[r].position])]
    /\ iter' = [iter EXCEPT ![r] = IterAdvance(@)]
    /\ UNCHANGED <<bufVars, lockVars, pcW, argW, pcR, snap, clock, histVars, rtp, fileVars,
                   encVars, hdrVars, pageVars, auxVars, chanVars, buildVars>>

\* A callback that calls it.Next() without checking it.HasNext(), on an
\* exhausted iterator: Next panics before it reads a slot, the deferred
\* RUnlock of WithIterator runs while the panic unwinds.
IterNextExhausted(r) ==
    /\ Running
    /\ pcR[r] = "cb"
    /\ ~HasNext(iter[r])
    /\ rwReaders' = rwReaders \ {r}
    /\ pcR' = [pcR EXCEPT ![r] = "panic"]
    /\ UNCHANGED <<bufVars, rwWriter, pcW, argW, iter, yielded, snap, clock, histVars, rtp,
                   fileVars, encVars, hdrVars, pageVars, auxVars, chanVars, buildVars>>

\* The callback returns and the deferred RUnlock runs; the iterator and what
\* the callback read from it are gone with the callback.
WithIteratorEnd(r) ==
    /\ Running
    /\ pcR[r] = "cb"
    /\ ~HasNext(iter[r])
    /\ rwReaders' = rwReaders \ {r}
    /\ pcR' = [pcR EXCEPT ![r] = "idle"]
    /\ iter' = [iter EXCEPT ![r] = NoIterator]
    /\ yielded' = [yielded EXCEPT ![r] = <<>>]
    /\ snap' = [snap EXCEPT ![r] = NoSnap]
    /\ UNCHANGED <<bufVars, rwWriter, pcW, argW, clock, histVars, rtp,
                   fileVars, encVars, hdrVars, pageVars, auxVars, chanVars, buildVars>>

(***************************************************************************)
(* Bytes.  A uint32 is held as its four bytes, most significant first,     *)
(* since the checksum does not fit the model checker's integers.           *)
(***************************************************************************)
Byte == 0..255

RECURSIVE XorBits(_, _, _)
\* Bitwise exclusive or of the low n bits of a and b.
XorBits(a, b, n) ==
    IF n = 0 THEN 0
    ELSE ((a + b) % 2) + 2 * XorBits(a \div 2, b \div 2, n - 1)

XorTable == [a \in Byte |-> [b \in Byte |-> XorBits(a, b, 8)]]

XorByte(a, b) == XorTable[a][b]

XorWord(x, y) ==
    <<XorByte(x[1], y[1]), XorByte(x[2], y[2]), XorByte(x[3], y[3]),
      XorByte(x[4], y[4])>>

\* x << 1 on a uint32.
ShiftLeft1(x) ==
    <<((x[1] * 2) % 256) + (x[2] \div 128),
      ((x[2] * 2) % 256) + (x[3] \div 128),
      ((x[3] * 2) % 256) + (x[4] \div 128),
      (x[4] * 2) % 256>>

\* x << 8 on a uint32.
ShiftLeft8(x) == <<x[2], x[3], x[4], 0>>

RECURSIVE LittleEndian(_, _)
\* binary.Write(w, binary.LittleEndian, v) for a non-negative v of n bytes.
LittleEndian(v, n) ==
    IF n = 0 THEN <<>> ELSE <<v % 256>> \o LittleEndian(v \div 256, n - 1)

\* Mutant: the sign of v is dropped.
LittleEndianMagnitude(v, n) == LittleEndian(IF v >= 0 THEN v ELSE -v, n)

\* The same for a signed v: two's complement.
LittleEndianSigned(v, n) ==
    IF v >= 0 THEN LittleEndian(v, n)
    ELSE LET magnitude == LittleEndian(-v - 1, n)
         IN  [k \in 1..n |-> 255 - magnitude[k]]

RECURSIVE ConcatRange(_, _, _)
\* ws[lo] \o ... \o ws[hi], by halves to keep the recursion shallow.
ConcatRange(ws, lo, hi) ==
    IF lo > hi THEN <<>>
    ELSE IF lo = hi THEN ws[lo]
    ELSE LET mid == (lo + hi) \div 2
         IN  ConcatRange(ws, lo, mid) \o ConcatRange(ws, mid + 1, hi)

\* The bytes of a sequence of writes, in order.
Concat(ws) == ConcatRange(ws, 1, Len(ws))

RECURSIVE SumRange(_, _, _)
SumRange(s, lo, hi) ==
    IF lo > hi THEN 0
    ELSE IF lo = hi THEN s[lo]
    ELSE LET mid == (lo + hi) \div 2
         IN  SumRange(s, lo, mid) + SumRange(s, mid + 1, hi)

Sum(s) == SumRange(s, 1, Len(s))

(***************************************************************************)
(* ogg: the checksum table and the checksum of a page.                     *)
(***************************************************************************)
\* const poly = 0x04c11db7
\* Mutant: the polynomial of the reflected CRC-32, 0xEDB88320.
polyReflected == <<237, 184, 131, 32>>

poly == <<4, 193, 29, 183>>

RECURSIVE CrcRounds(_, _)
\* The inner loop of crcChecksum: j rounds on r.
CrcRounds(r, j) ==
    IF j = 0 THEN r
    ELSE CrcRounds(IF r[1] >= 128 THEN XorWord(ShiftLeft1(r), poly)
                                  ELSE ShiftLeft1(r), j - 1)

crcTable == [i \in Byte |-> CrcRounds(<<i, 0, 0, 0>>, 8)]

\* checksum = (checksum << 8) ^ crcTable[byte(checksum>>24)^b]
ChecksumStep(checksum, b) ==
    XorWord(ShiftLeft8(checksum), crcTable[XorByte(checksum[1], b)])

RECURSIVE ChecksumRange(_, _, _, _)
\* The loop of page.Encode over bytes[lo..hi], in order; the range is halved
\* to keep the recursion shallow.
ChecksumRange(checksum, bytes, lo, hi) ==
    IF lo > hi THEN checksum
    ELSE IF lo = hi THEN ChecksumStep(checksum, bytes[lo])
    ELSE LET mid == (lo + hi) \div 2
             left == ChecksumRange(checksum, bytes, lo, mid)
         IN  \* The test has the left half evaluated before the right one is entered.
             IF Len(left) = 4 THEN ChecksumRange(left, bytes, mid + 1, hi)
             ELSE left

Checksum(bytes) == ChecksumRange(<<0, 0, 0, 0>>, bytes, 1, Len(bytes))

(***************************************************************************)
(* ogg: pages.                                                             *)
(***************************************************************************)
maxSegmentLength == 255

continuedFlag == 1

firstPageFlag == 2

lastPageFlag == 4

\* The most entries a segment table holds.
maxSegments == 255

BitstreamSerialNumber == 1

NewPage(first, granulePosition, sequenceNumber) ==
    [Header |-> [Continued |-> FALSE,
                 FirstPage |-> first,
                 LastPage |-> FALSE,
                 GranulePosition |-> granulePosition,
                 BitstreamSerialNumber |-> BitstreamSerialNumber,
                 PageSequenceNumber |-> sequenceNumber,
                 SegmentTable |-> <<>>],
     Segments |-> <<>>]

\* Mutant: an AddSegment that takes a segment of any length.
AddSegmentPanicsWhenFull(p, segment) ==
    Len(p.Header.SegmentTable) = maxSegments

\* page.AddSegment panics on a segment that is too long or on a full page.
AddSegmentPanics(p, segment) ==
    \/ Len(segment) > maxSegmentLength
    \/ Len(p.Header.SegmentTable) = maxSegments

AddSegment(p, segment) ==
    [Header |-> [p.Header EXCEPT !.SegmentTable = Append(@, Len(segment))],
     Segments |-> p.Segments \o segment]

\* Mutant: a header type that marks every page the last of its stream.
headerTypeLast(h) ==
    (IF h.FirstPage THEN firstPageFlag ELSE 0) + lastPageFlag

headerType(h) ==
    (IF h.Continued THEN continuedFlag ELSE 0)
    + (IF h.FirstPage THEN firstPageFlag ELSE 0)
    + (IF h.LastPage THEN lastPageFlag ELSE 0)

\* pageHeader.EncodeWithCRC: one entry per w.write call, crc as four bytes
\* most significant first.
HeaderWrites(h, crc) ==
    << <<79, 103, 103, 83>>,
       <<0>>,
       <<headerType(h)>>,
       LittleEndianSigned(h.GranulePosition, 8),
       LittleEndian(h.BitstreamSerialNumber, 4),
       LittleEndian(h.PageSequenceNumber, 4),
       <<crc[4], crc[3], crc[2], crc[1]>>,
       <<Len(h.SegmentTable) % 256>> >>
    \o [k \in 1..Len(h.SegmentTable) |-> <<h.SegmentTable[k]>>]

\* page.EncodeWithCRC: the header's writes, then one Write of the segments.
PageWrites(p, crc) == HeaderWrites(p.Header, crc) \o <<p.Segments>>

\* page.Encode: the checksum of the page encoded with a zero checksum field.
PageChecksum(p) == Checksum(Concat(PageWrites(p, <<0, 0, 0, 0>>)))

\* A sink fault: <<>> when the sink never fails, <<k>> when its Write calls
\* fail after k of them have succeeded.
NoFault == <<>>

FaultAfter(k) == <<k>>

\* The number of the first n Write calls that reach a sink with this fault.
Reach(fault, n) == IF fault = NoFault THEN n ELSE Min(fault[1], n)

\* The fault that is left after n Write calls were attempted.
FaultLeft(fault, n) ==
    IF fault = NoFault THEN NoFault
    ELSE FaultAfter(IF fault[1] > n THEN fault[1] - n ELSE 0)

(***************************************************************************)
(* ogg: bitstreamEncoder.                                                  *)
(***************************************************************************)
newBitstreamEncoder(writer) ==
    [writer |-> writer, firstPage |-> TRUE, sequenceNumber |-> 1]

\* One iteration of Encode's loop, at offset i: page.AddSegment(packetData[i:end]).
SplitStep(r, packetData, i) ==
    LET end == Min(i + maxSegmentLength, Len(packetData))
        segment == SubSeq(packetData, i + 1, end)
    IN  IF r.panic THEN r
        ELSE IF AddSegmentPanics(r.page, segment) THEN [r EXCEPT !.panic = TRUE]
        ELSE [r EXCEPT !.page = AddSegment(r.page, segment)]

RECURSIVE SplitRange(_, _, _, _)
\* Iterations lo..hi of the loop (iteration k is at offset k * maxSegmentLength),
\* in order; the range is halved to keep the recursion shallow.
SplitRange(r, packetData, lo, hi) ==
    IF lo > hi THEN r
    ELSE IF lo = hi THEN SplitStep(r, packetData, lo * maxSegmentLength)
    ELSE LET mid == (lo + hi) \div 2
             left == SplitRange(r, packetData, lo, mid)
         IN  \* The test has the left half evaluated before the right one is entered.
             IF left.panic THEN left
             ELSE SplitRange(left, packetData, mid + 1, hi)

\* for i := 0; i < len(packetData); i += maxSegmentLength { page.AddSegment(...) }
SplitSegments(p, packetData) ==
    SplitRange([page |-> p, panic |-> FALSE], packetData, 0,
               ((Len(packetData) + maxSegmentLength - 1) \div maxSegmentLength) - 1)

\* Mutant: no closing segment is ever added.
NeedsTerminatorNever(packetData) == FALSE

\* Whether the packet ends on a segment boundary and needs a closing
\* zero-length segment.
NeedsTerminator(packetData) == Len(packetData) % maxSegmentLength = 0

\* The page Encode builds for a packet, or a panic.
BuildPage(s, packetData, granulePosition) ==
    With(SplitSegments(NewPage(s.firstPage, granulePosition, s.sequenceNumber),
                       packetData),
         LAMBDA split :
            IF split.panic THEN split
            ELSE IF ~NeedsTerminator(packetData) THEN split
            ELSE IF AddSegmentPanics(split.page, <<>>)
                 THEN [page |-> split.page, panic |-> TRUE]
            ELSE [page |-> AddSegment(split.page, <<>>), panic |-> FALSE])

\* Mutant: an encoder that keeps flagging its pages first-of-stream.
AdvanceKeepFirst(s) == [s EXCEPT !.sequenceNumber = @ + 1]

\* Mutant: an encoder that does not count its pages.
AdvanceKeepNumber(s) == [s EXCEPT !.firstPage = FALSE]

\* The encoder after a page was written: s.sequenceNumber++; s.firstPage = false.
Advance(s) == [s EXCEPT !.sequenceNumber = @ + 1, !.firstPage = FALSE]

\* The record kept of one Encode call.
Call(packetData, granulePosition, page, end) ==
    [packetData |-> packetData, granulePosition |-> granulePosition,
     page |-> page, end |-> end, length |-> Len(packetData)]

\* The record kept of an Encode call that panicked: of its payload the length
\* only, of its page the literal Encode started from.
PanickedCall(s, packetData, granulePosition) ==
    [packetData |-> <<>>, granulePosition |-> granulePosition,
     page |-> NewPage(s.firstPage, granulePosition, s.sequenceNumber),
     end |-> "panic", length |-> Len(packetData)]

\* Mutant: an Encode that counts the page and clears the first-page marker
\* although the write failed.
EncodeAdvancing(s, sink, fault, packetData, granulePosition) ==
    With(BuildPage(s, packetData, granulePosition), LAMBDA built :
        IF built.panic
        THEN [state |-> s, sink |-> sink, fault |-> fault,
              call |-> PanickedCall(s, packetData, granulePosition)]
        ELSE
    With(PageWrites(built.page, PageChecksum(built.page)), LAMBDA writes :
    With(Reach(fault, Len(writes)), LAMBDA n :
        [state |-> Advance(s),
         sink |-> sink \o Concat(SubSeq(writes, 1, n)),
         fault |-> FaultLeft(fault, Len(writes)),
         call |-> Call(packetData, granulePosition, built.page,
                       IF n < Len(writes) THEN "error" ELSE "ok")])))

\* bitstreamEncoder.Encode on encoder state s, with the sink holding `sink`
\* and having `fault`.  Yields the new encoder state, the sink's bytes, the
\* fault left, and the call with how it ended: "ok", "error" or "panic".
Encode(s, sink, fault, packetData, granulePosition) ==
    With(BuildPage(s, packetData, granulePosition), LAMBDA built :
        IF built.panic
        THEN [state |-> s, sink |-> sink, fault |-> fault,
              call |-> PanickedCall(s, packetData, granulePosition)]
        ELSE
    With(PageWrites(built.page, PageChecksum(built.page)), LAMBDA writes :
    With(Reach(fault, Len(writes)), LAMBDA n :
        IF n < Len(writes)
        THEN [state |-> s, sink |-> sink \o Concat(SubSeq(writes, 1, n)),
              fault |-> FaultLeft(fault, Len(writes)),
              call |-> Call(packetData, granulePosition, built.page, "error")]
        ELSE [state |-> Advance(s), sink |-> sink \o Concat(writes),
              fault |-> FaultLeft(fault, Len(writes)),
              call |-> Call(packetData, granulePosition, built.page, "ok")])))

(***************************************************************************)
(* ogg: the Opus header packets and NewEncoder.                            *)
(***************************************************************************)
ChannelCount == 2

PreSkip == 3840

SamplingRateHz == 48000

Gain == 0

MappingFamily == 0

\* []byte("discord-replay")
VendorString == <<100, 105, 115, 99, 111, 114, 100, 45, 114, 101, 112, 108, 97, 121>>

opusIdentificationHeader ==
    [ChannelCount |-> ChannelCount, PreSkip |-> PreSkip,
     InputSampleRate |-> SamplingRateHz, OutputGain |-> Gain,
     MappingFamily |-> MappingFamily]

\* opusIdentificationHeader.Bytes
IdHeaderBytes(h) ==
    <<79, 112, 117, 115, 72, 101, 97, 100>>
    \o <<1>>
    \o <<h.ChannelCount>>
    \o LittleEndian(h.PreSkip, 2)
    \o LittleEndian(h.InputSampleRate, 4)
    \o LittleEndian(h.OutputGain, 2)
    \o <<0>>

\* opusCommentHeader.Bytes
CommentHeaderBytes(vendor) ==
    <<79, 112, 117, 115, 84, 97, 103, 115>>
    \o LittleEndian(Len(vendor), 4)
    \o vendor
    \o LittleEndian(0, 4)

\* NewEncoder on a writer whose sink holds `sink`: the identification page,
\* then the comment page.  Yields the bitstream state, the sink's bytes, the
\* fault left, the Encode calls made, and end: "ok" when both were written.
NewEncoder(writer, sink, fault) ==
    With(Encode(newBitstreamEncoder(writer), sink, fault,
                IdHeaderBytes(opusIdentificationHeader), 0), LAMBDA id :
        IF id.call.end # "ok"
        THEN [state |-> id.state, sink |-> id.sink, fault |-> id.fault,
              calls |-> <<id.call>>, end |-> id.call.end]
        ELSE
    With(Encode(id.state, id.sink, id.fault, CommentHeaderBytes(VendorString), 0),
         LAMBDA comment :
            [state |-> comment.state, sink |-> comment.sink,
             fault |-> comment.fault, calls |-> <<id.call, comment.call>>,
             end |-> comment.call.end]))

(***************************************************************************)
(* SpecHdr: the Bytes() of identification and comment headers.             *)
(***************************************************************************)
\* Values of the fields of an opusIdentificationHeader.
IdHeaders ==
    [ChannelCount : {1, 2}, PreSkip : {0, 3840, 65535},
     InputSampleRate : {8000, 48000, 16777216}, OutputGain : {0, 256, 65535},
     MappingFamily : {0, 1}]

\* Vendor strings of an opusCommentHeader.
VendorStrings == {<<>>, <<120>>, VendorString}

opusCommentHeader(vendor) == [VendorString |-> vendor]

\* h.Bytes() on an opusIdentificationHeader.
IdHeaderEncode(h) ==
    /\ header' = h
    /\ packet' = IdHeaderBytes(h)
    /\ UNCHANGED <<bufVars, lockVars, procVars, clock, histVars, rtp, fileVars, encVars,
                   buildVars, chanVars, pageVars, auxVars>>

\* h.Bytes() on an opusCommentHeader.
CommentHeaderEncode(h) ==
    /\ header' = h
    /\ packet' = CommentHeaderBytes(h.VendorString)
    /\ UNCHANGED <<bufVars, lockVars, procVars, clock, histVars, rtp, fileVars, encVars,
                   buildVars, chanVars, pageVars, auxVars>>

NextHdr ==
    \/ \E h \in IdHeaders : IdHeaderEncode(h)
    \/ \E v \in VendorStrings : CommentHeaderEncode(opusCommentHeader(v))

SpecHdr == Init /\ [][NextHdr]_vars

(***************************************************************************)
(* SpecEnc: one Encoder on one sink.                                       *)
(***************************************************************************)
Faults == {NoFault} \cup {FaultAfter(k) : k \in FaultPoints}

\* A payload of n bytes.
Payload(n) == [i \in 1..n |-> (7 * i) % 256]

\* The audio calls made on the encoder so far.
AudioCalls == IF calls = <<>> THEN 0 ELSE Len(calls[1]) - 2

\* ogg.NewEncoder(logger, writer) on a new, empty sink.
EncNew(fault) ==
    /\ encPc = "new"
    /\ \E r \in {NewEncoder(1, <<>>, fault)} :
           /\ fs' = <<r.sink>>
           /\ calls' = <<r.calls>>
           /\ encoder' = IF r.end = "ok" THEN <<r.state>> ELSE <<>>
           /\ encPc' = IF r.end = "ok" THEN "ready" ELSE "failed"
    /\ UNCHANGED <<bufVars, lockVars, procVars, clock, histVars, rtp, buildVars, hdrVars, pageVars, auxVars, chanVars>>

\* Encoder.Encode(opusData, pcmSampleIndex).
EncEncode(opusData, pcmSampleIndex, fault) ==
    /\ encPc = "ready"
    /\ AudioCalls < MaxEncodes
    /\ \E s \in {encoder[1]} :
       \E r \in {Encode(s, fs[s.writer], fault, opusData, pcmSampleIndex)} :
           /\ fs' = [fs EXCEPT ![s.writer] = r.sink]
           /\ calls' = [calls EXCEPT ![s.writer] = Append(@, r.call)]
           /\ encoder' = <<r.state>>
           /\ encPc' = IF r.call.end = "panic" THEN "panicked" ELSE "ready"
    /\ UNCHANGED <<bufVars, lockVars, procVars, clock, histVars, rtp, buildVars, hdrVars, pageVars, auxVars, chanVars>>

NextEnc ==
    \/ \E fault \in Faults : EncNew(fault)
    \/ \E n \in PayloadLengths, g \in GranulePositions, fault \in Faults :
          EncEncode(Payload(n), g, fault)

SpecEnc == Init /\ [][NextEnc]_vars

(***************************************************************************)
(* SpecPage: a page filled by direct AddSegment calls, and an Encoder that *)
(* is given payloads too long for one page.                                *)
(***************************************************************************)
\* The page literal of bitstreamEncoder.Encode: a page with no segment yet.
PageNew(first) ==
    /\ pagePc = "none"
    /\ openPage' = <<NewPage(first, 0, 1)>>
    /\ pagePc' = "open"
    /\ UNCHANGED <<bufVars, lockVars, procVars, clock, histVars, rtp, fileVars, encVars,
                   buildVars, hdrVars, chanVars, segmentArg, segCalls, auxVars>>

\* page.AddSegment(seg): both panics come before the page is touched.
PageAddSegment(seg) ==
    /\ pagePc = "open"
    /\ segCalls < MaxSegmentCalls
    /\ segmentArg' = seg
    /\ segCalls' = segCalls + 1
    /\ IF AddSegmentPanics(openPage[1], seg)
       THEN /\ pagePc' = "panicked"
            /\ openPage' = openPage
       ELSE /\ pagePc' = pagePc
            /\ openPage' = <<AddSegment(openPage[1], seg)>>
    /\ UNCHANGED <<bufVars, lockVars, procVars, clock, histVars, rtp, fileVars, encVars,
                   buildVars, hdrVars, chanVars, auxVars>>

NextPage ==
    \/ \E first \in BOOLEAN : PageNew(first)
    \/ \E n \in SegmentLengths : PageAddSegment(Payload(n))
    \/ EncNew(NoFault)
    \/ \E n \in LongPayloadLengths : EncEncode(Payload(n), FrameSize, NoFault)

SpecPage == Init /\ [][NextPage]_vars

Next ==
    \/ \E ssrc \in SSRCs : ListenerRecv(ssrc, 0, 0, FrameLengthMs)
    \/ \E w \in Writers : LockAnnounce(w)
    \/ \E w \in Writers : LockAcquire(w)
    \/ AddBody
    \/ ResetCall
    \/ ResetBody
    \/ ChangeChannel
    \/ \E r \in Readers : WithIteratorBegin(r)
    \/ \E r \in Readers : IterNext(r)
    \/ \E r \in Readers : IterNextExhausted(r)
    \/ \E r \in Readers : WithIteratorEnd(r)

Spec == Init /\ [][Next]_vars

(***************************************************************************)
(* The buffer with callbacks that return: the callback loops on HasNext   *)
(* and never calls Next on an exhausted iterator.  The writer mutex of the *)
(* RWMutex is a sync.Mutex, whose starvation mode hands the mutex to a     *)
(* goroutine that has waited: strong fairness on LockAnnounce.  A writer   *)
(* that waits for the readers to leave is woken by the last RUnlock, and a *)
(* goroutine that can run is scheduled: weak fairness on the other steps.  *)
(* Snapshot requests and received packets may arrive at any time or never. *)
(***************************************************************************)
NextLive ==
    \/ \E ssrc \in {1} : ListenerRecv(ssrc, 0, 0, FrameLengthMs)
    \/ \E w \in Writers : LockAnnounce(w)
    \/ \E w \in Writers : LockAcquire(w)
    \/ AddBody
    \/ ResetCall
    \/ ResetBody
    \/ ChangeChannel
    \/ \E r \in Readers : WithIteratorBegin(r)
    \/ \E r \in Readers : IterNext(r)
    \/ \E r \in Readers : WithIteratorEnd(r)

\* The next step of the writer that has announced itself.
HolderStep == (\E w \in Writers : LockAcquire(w)) \/ AddBody \/ ResetBody

\* The next step of the callback of reader r.
CallbackStep(r) == IterNext(r) \/ WithIteratorEnd(r)

Fairness ==
    /\ \A w \in Writers : SF_vars(LockAnnounce(w))
    /\ WF_vars(HolderStep)
    /\ \A r \in Readers : WF_vars(CallbackStep(r))

SpecLive == Init /\ [][NextLive]_vars /\ Fairness

\* C18: every Add call and every Reset call that has started eventually
\* acquires the buffer and completes, whatever snapshot requests arrive.
C18_WritersComplete ==
    \A w \in Writers :
        (pcW[w] \in {"lock", "drain", "locked"}) ~> (pcW[w] \in {"idle", "move"})

\* C18 witness: an Add has announced itself and waits for two snapshots in
\* progress to end, with a Reset queued behind it.
C18_Witness ==
    /\ pcW["listener"] = "drain"
    /\ pcW["manager"] = "lock"
    /\ rwReaders = Readers

(***************************************************************************)
(* Properties of the buffer, checked under Spec.                           *)
(***************************************************************************)
IsPrefix(s, t) == Len(s) <= Len(t) /\ s = SubSeq(t, 1, Len(s))

\* The callback of reader r has exhausted its iterator.
Exhausted(r) == pcR[r] = "cb" /\ ~HasNext(iter[r])

\* C17: an iterator over a buffer holding n packets has HasNext() true
\* exactly until Next has returned n packets, and Next called on the
\* exhausted iterator panics having returned no further packet.
C17_IteratorExhaustion ==
    \A r \in Readers :
        /\ pcR[r] = "cb" =>
               (HasNext(iter[r]) <=> Len(yielded[r]) < Min(snap[r].n, SIZE))
        /\ pcR[r] = "panic" =>
               /\ ~HasNext(iter[r])
               /\ Len(yielded[r]) = Min(snap[r].n, SIZE)

\* C17 witness: Next panicked on an iterator that had yielded two packets.
C17_Witness ==
    \E r \in Readers : pcR[r] = "panic" /\ Len(yielded[r]) = 2 /\ snap[r].n = 2

\* C22 (as stated): at most one WithIterator callback is executing at any
\* time.
C22_ExclusiveSnapshot ==
    Cardinality({r \in Readers : pcR[r] = "cb"}) <= 1

\* The packets a snapshot taken at sn must yield: the last min(n, SIZE)
\* packets added up to then, n of them since the last Reset.
Window(sn) == SubSeq(added, sn.total - Min(sn.n, SIZE) + 1, sn.total)

\* C39: after any interleaving of Adds and Resets, 0 <= size <= SIZE and
\* 0 <= nextPosition < SIZE, nextPosition = size while size < SIZE, size is
\* the lesser of SIZE and the number n of Adds since the last Reset, and a
\* snapshot yields exactly the last min(n, SIZE) packets added since that
\* Reset, in insertion order.
C39_BufferShape ==
    /\ size \in 0..SIZE
    /\ nextPosition \in 0..(SIZE - 1)
    /\ size < SIZE => nextPosition = size
    /\ size = Min(sinceReset, SIZE)
    /\ \A r \in Readers :
          Exhausted(r) =>
             /\ Len(yielded[r]) = Min(snap[r].n, SIZE)
             /\ \A i \in 1..Len(yielded[r]) :
                   yielded[r][i] = added[snap[r].total - Len(yielded[r]) + i]

\* C39 witness: a snapshot has yielded SIZE packets of the SIZE + 1 added
\* since a Reset that came on a buffer holding a packet; the cursor has
\* wrapped and stands at slot 1.
C39_Witness ==
    /\ nextPosition = 1
    /\ size = SIZE
    /\ \E r \in Readers :
          /\ Exhausted(r)
          /\ snap[r].resets = 1
          /\ snap[r].n = SIZE + 1
          /\ snap[r].total = SIZE + 2
          /\ Len(yielded[r]) = SIZE

\* C1: from an empty buffer, after k <= SIZE Adds and no Reset, a snapshot
\* yields exactly k packets and the i-th yielded is the i-th added.
C1_SnapshotUpToCapacity ==
    \A r \in Readers :
        (Exhausted(r) /\ snap[r].resets = 0 /\ snap[r].total <= SIZE) =>
            /\ Len(yielded[r]) = snap[r].total
            /\ \A i \in 1..snap[r].total : yielded[r][i] = added[i]

C1_Witness ==
    \E r \in Readers :
        Exhausted(r) /\ snap[r].resets = 0 /\ snap[r].total = SIZE

\* C2: from an empty buffer, after k > SIZE Adds and no Reset, a snapshot
\* yields exactly SIZE packets in insertion order, from the (k - SIZE)-th
\* packet added (counting from 0) to the most recent one.
C2_SnapshotPastCapacity ==
    \A r \in Readers :
        (Exhausted(r) /\ snap[r].resets = 0 /\ snap[r].total > SIZE) =>
            /\ Len(yielded[r]) = SIZE
            /\ \A i \in 1..SIZE :
                  yielded[r][i] = added[(snap[r].total - SIZE) + i]
            /\ yielded[r][1] = added[(snap[r].total - SIZE) + 1]
            /\ yielded[r][SIZE] = added[snap[r].total]

C2_Witness ==
    \E r \in Readers :
        Exhausted(r) /\ snap[r].resets = 0 /\ snap[r].total = SIZE + 2

\* C3: a Reset followed by exactly one Add(p) makes the next snapshot yield
\* exactly one packet, p, whatever the buffer held before the Reset.
C3_ResetThenOneAdd ==
    \A r \in Readers :
        (Exhausted(r) /\ snap[r].resets >= 1 /\ snap[r].n = 1) =>
            yielded[r] = <<added[snap[r].total]>>

\* The Reset came on a full buffer whose cursor had wrapped.
C3_Witness ==
    \E r \in Readers :
        /\ Exhausted(r)
        /\ snap[r].resets = 1
        /\ snap[r].n = 1
        /\ snap[r].total = SIZE + 2

\* C4: while a callback runs no Add and no Reset takes effect, and what the
\* iterator yields is the window of the add sequence the buffer held when
\* the snapshot acquired access.
C4_SnapshotIsolated ==
    \A r \in Readers :
        pcR[r] = "cb" =>
            /\ \A w \in Writers : pcW[w] # "locked"
            /\ Len(added) = snap[r].total
            /\ sinceReset = snap[r].n
            /\ resets = snap[r].resets
            /\ IsPrefix(yielded[r], Window(snap[r]))
            /\ Exhausted(r) => yielded[r] = Window(snap[r])

\* A writer is held back by a callback that has read a wrapped buffer.
C4_Witness ==
    \E r \in Readers :
        /\ Exhausted(r)
        /\ snap[r].n > SIZE
        /\ \E w \in Writers : pcW[w] = "drain"

(***************************************************************************)
(* replayfile: Creator.Create, create and createStreamFiles.               *)
(***************************************************************************)
silentFrame == <<248, 255, 254>>

\* Go's integer division, which truncates toward zero.
Quot(a, b) == IF a >= 0 THEN a \div b ELSE -((-a) \div b)

\* time.Duration.Nanoseconds() * SampleRate / 1e9, for a duration in ms.
SamplesIn(ms) == Quot(ms * SampleRate, 1000)

\* lastPCMIndex of a new streamState: int64(pkt.PCMIndex) - pcmSamplesToPad.
InitialLastPCMIndex(pkt, start) == pkt.PCMIndex - SamplesIn(pkt.Time - start)

\* packetsToPad := (int64(pkt.PCMIndex) - (stream.lastPCMIndex + FrameSize)) / FrameSize,
\* for a frame of `frame` samples.
PacketsToPadIn(frame, pcmIndex, lastPCMIndex) ==
    Quot(pcmIndex - (lastPCMIndex + frame), frame)

\* Mutant: one silent packet too many.
PacketsToPadExtra(pcmIndex, lastPCMIndex) ==
    Quot(pcmIndex - lastPCMIndex, FrameSize)

PacketsToPad(pcmIndex, lastPCMIndex) ==
    PacketsToPadIn(FrameSize, pcmIndex, lastPCMIndex)

\* Mutant: every packet is taken for the first of its stream.
IsNewStreamAlways(pkt) == TRUE

\* _, ok := streams[ssrc]; !ok
IsNewStream(pkt) == pkt.SSRC \notin DOMAIN streams

\* Mutant: packets exactly recordingDuration old are kept.
TooOldStrict(age, duration) == age > duration

\* c.now().Sub(pkt.Time) >= recordingDuration
TooOld(age, duration) == age >= duration

\* What has happened on a stream's file in a loop pass: the encoder state,
\* the file's bytes, the fault left, the Encode calls made, and "ok" or how
\* the last call failed.
Progress(state, sink, fault, cs, end) ==
    [state |-> state, sink |-> sink, fault |-> fault, calls |-> cs, end |-> end]

\* One more Encode call on top of acc.
Encoded(acc, packetData, granulePosition) ==
    With(Encode(acc.state, acc.sink, acc.fault, packetData, granulePosition),
         LAMBDA r :
            Progress(r.state, r.sink, r.fault, Append(acc.calls, r.call), r.call.end))

RECURSIVE PadSilence(_, _, _, _)
\* for i := int64(0); i < packetsToPad; i++ { Encode(silentFrame, last+(i+1)*FrameSize) }
PadSilence(acc, lastPCMIndex, i, packetsToPad) ==
    IF i >= packetsToPad \/ acc.end # "ok" THEN acc
    ELSE PadSilence(Encoded(acc, silentFrame, lastPCMIndex + (i + 1) * FrameSize),
                    lastPCMIndex, i + 1, packetsToPad)

\* The padding and the packet itself, encoded on top of acc.
EncodePacket(acc, lastPCMIndex, pkt) ==
    With(PadSilence(acc, lastPCMIndex, 0, PacketsToPad(pkt.PCMIndex, lastPCMIndex)),
         LAMBDA padded :
            IF padded.end # "ok" THEN padded
            ELSE Encoded(padded, pkt.Opus, pkt.PCMIndex))

\* The loop pass for a packet of a stream not seen before, in new file f:
\* NewEncoder, then the padding and the packet.
FirstPacket(f, fault, pkt, start) ==
    With(NewEncoder(f, <<>>, fault), LAMBDA enc :
    With(Progress(enc.state, enc.sink, enc.fault, enc.calls, enc.end), LAMBDA opened :
        IF enc.end # "ok" THEN [opened EXCEPT !.end = "encoder"]
        ELSE EncodePacket(opened, InitialLastPCMIndex(pkt, start), pkt)))

\* The loop pass for a packet of a stream that has its file.
LaterPacket(stream, fault, pkt) ==
    EncodePacket(Progress(stream.encoder, fs[stream.encoder.writer], fault,
                          calls[stream.encoder.writer], "ok"),
                 stream.lastPCMIndex, pkt)

\* The listener's Buffer.Add(time.Now(), pkt) while no replay is being built:
\* Lock, the body, Unlock.  Speakers are numbered in the order in which they
\* are first heard.
ListenerAdd(ssrc, first, missed, dt) ==
    /\ bpc = "fill"
    /\ Len(added) < MaxBuildAdds
    /\ \A s \in SSRCs : s < ssrc => rtp[s] # <<>>
    /\ missed # 0 => rtp[ssrc] # <<>>
    /\ clock' = clock + dt
    /\ \E pkt \in {AudioPacket(clock', ssrc, NextTimestamp(ssrc, first, missed),
                              PayloadOf(ssrc, Len(added) + 1))} :
          /\ buffer' = AddSlot(buffer, nextPosition, pkt)
          /\ added' = Append(added, pkt)
          /\ rtp' = [rtp EXCEPT ![ssrc] = <<pkt.PCMIndex>>]
    /\ size' = AddSize(size)
    /\ nextPosition' = AddNextPosition(nextPosition)
    /\ sinceReset' = sinceReset + 1
    /\ UNCHANGED <<lockVars, procVars, resets, fileVars, encVars, hdrVars, pageVars, auxVars, chanVars, buildVars>>

\* Mutant: the stream states of the last build are found again.
StaleStreams == streams

\* streams := map[uint32]*streamState{}
FreshStreams == <<>>

\* Creator.Create: WithIterator takes the read lock and calls create, whose
\* locals and those of createStreamFiles start empty.
CreateBegin(duration) ==
    /\ bpc = "fill"
    /\ Len(earlier) < MaxBuilds
    /\ CanRLock
    /\ rwReaders' = rwReaders \cup {"create"}
    /\ bIter' = NewIterator(nextPosition, size)
    /\ recordingDuration' = duration
    /\ streams' = FreshStreams
    /\ streamStartTime' = <<>>
    /\ files' = <<>>
    /\ result' = ""
    /\ mixed' = <<>>
    /\ seen' = <<>>
    /\ bpc' = "loop"
    /\ UNCHANGED <<bufVars, rwWriter, procVars, clock, histVars, rtp, fileVars, encVars, hdrVars, pageVars, auxVars, chanVars,
                   removed, ticks>>

\* Time passes while the replay is built, before a call of c.now().
Tick ==
    /\ bpc = "loop"
    /\ HasNext(bIter)
    /\ ticks < MaxTicks
    /\ clock' = clock + FrameLengthMs
    /\ ticks' = ticks + 1
    /\ UNCHANGED <<bufVars, lockVars, procVars, histVars, rtp, fileVars, encVars, hdrVars, pageVars, auxVars, chanVars, bpc,
                   bIter, recordingDuration, streamStartTime, streams, files, result,
                   mixed, removed, seen>>

\* The errors Create returns, by the message that wraps the failure; each
\* is further wrapped by create.
ErrCreateTemp == "failed to create temporary file"

ErrNewEncoder == "failed to create ogg encoder"

\* "failed to encode silent padding frame" or "failed to encode opus data"
ErrEncode == "failed to encode"

ErrMix == "failed to mix files together"

\* What createStreamFiles ends with when an Encode call ended with `end`.
Failure(end) == IF end = "panic" THEN "panic" ELSE ErrEncode

\* Mutant: a build that drops the error and goes on with the next packet.
AbortIgnored(end) ==
    /\ UNCHANGED <<result, removed, rwReaders, bpc>>

\* create's return with an error (or a panic) out of createStreamFiles: the
\* deferred removal of the files listed, then WithIterator's RUnlock.
Abort(end) ==
    /\ result' = end
    /\ removed' = removed \cup {files'[k] : k \in 1..Len(files')}
    /\ rwReaders' = rwReaders \ {"create"}
    /\ bpc' = "done"

\* The loop goes on.
Continue ==
    /\ UNCHANGED <<result, removed, rwReaders, bpc>>

\* The pass for a packet that is too old: continue.
SkipPacket ==
    /\ Continue
    /\ UNCHANGED <<fileVars, streamStartTime, streams, files>>

\* The pass for a packet of a stream not seen before.
NewStream(pkt, start, createFails, fault) ==
    IF createFails
    THEN /\ UNCHANGED <<fileVars, streams, files>>
         /\ Abort(ErrCreateTemp)
    ELSE \E f \in {Len(fs) + 1} :
         \E r \in {FirstPacket(f, fault, pkt, start)} :
            /\ fs' = Append(fs, r.sink)
            /\ calls' = Append(calls, r.calls)
            /\ IF r.end = "encoder"
               THEN /\ UNCHANGED <<streams, files>>
                    /\ Abort(ErrNewEncoder)
               ELSE /\ files' = Append(files, f)
                    /\ streams' = streams @@ (pkt.SSRC :>
                          [encoder |-> r.state,
                           lastPCMIndex |-> IF r.end = "ok" THEN pkt.PCMIndex
                                            ELSE InitialLastPCMIndex(pkt, start)])
                    /\ IF r.end = "ok" THEN Continue ELSE Abort(Failure(r.end))

\* The pass for a packet of a stream that has its file.
KnownStream(pkt, fault) ==
    \E r \in {LaterPacket(streams[pkt.SSRC], fault, pkt)} :
       /\ fs' = [fs EXCEPT ![r.state.writer] = r.sink]
       /\ calls' = [calls EXCEPT ![r.state.writer] = r.calls]
       /\ files' = files
       /\ streams' = [streams EXCEPT ![pkt.SSRC] =
                        [encoder |-> r.state,
                         lastPCMIndex |-> IF r.end = "ok" THEN pkt.PCMIndex
                                          ELSE @.lastPCMIndex]]
       /\ IF r.end = "ok" THEN Continue ELSE Abort(Failure(r.end))

\* One pass of the loop of createStreamFiles, on the next packet.  createFails:
\* os.CreateTemp is called and fails; fault: the fault of the stream's file
\* when the pass writes to it.
LoopPass(createFails, fault) ==
    /\ bpc = "loop"
    /\ HasNext(bIter)
    /\ bIter' = IterAdvance(bIter)
    /\ \E pkt \in {buffer[bIter.position]} :
       \E age \in {clock - pkt.Time} :
          /\ createFails => ~TooOld(age, recordingDuration) /\ IsNewStream(pkt)
          /\ fault # NoFault => ~TooOld(age, recordingDuration) /\ ~createFails
          /\ seen' = Append(seen, [pkt |-> pkt, age |-> age])
          /\ IF TooOld(age, recordingDuration)
             THEN SkipPacket
             ELSE /\ streamStartTime' = IF streamStartTime = <<>> THEN <<pkt.Time>>
                                        ELSE streamStartTime
                  /\ IF IsNewStream(pkt)
                     THEN NewStream(pkt, streamStartTime'[1], createFails, fault)
                     ELSE KnownStream(pkt, fault)
    /\ UNCHANGED <<bufVars, rwWriter, procVars, clock, histVars, rtp, encVars, hdrVars, pageVars, auxVars, chanVars,
                   recordingDuration, mixed, ticks>>

\* The iterator is exhausted: createStreamFiles returns nil, create reports
\* NoAudioDataErr or runs mixFiles (ffmpeg), the files are removed and the
\* read lock released.  mixFails: ffmpeg fails.
LoopExit(mixFails) ==
    /\ bpc = "loop"
    /\ ~HasNext(bIter)
    /\ IF Len(files) = 0
       THEN /\ result' = "NoAudioData"
            /\ mixed' = mixed
       ELSE /\ mixed' = Append(mixed, files)
            /\ result' = IF mixFails THEN ErrMix ELSE "nil"
    /\ removed' = removed \cup {files[k] : k \in 1..Len(files)}
    /\ rwReaders' = rwReaders \ {"create"}
    /\ bpc' = "done"
    /\ UNCHANGED <<bufVars, rwWriter, procVars, clock, histVars, rtp, fileVars, encVars, hdrVars, pageVars, auxVars, chanVars,
                   bIter, recordingDuration, streamStartTime, streams, files, seen,
                   ticks>>

BuildFaults == {NoFault} \cup {FaultAfter(k) : k \in BuildFaultPoints}

NextBuild ==
    \/ \E ssrc \in SSRCs, first \in FirstTimestamps, missed \in MissedFrames,
          dt \in ArrivalGaps : ListenerAdd(ssrc, first, missed, dt)
    \/ \E duration \in Durations : CreateBegin(duration)
    \/ Tick
    \/ \E createFails \in BOOLEAN, fault \in BuildFaults : LoopPass(createFails, fault)
    \/ \E mixFails \in BOOLEAN : LoopExit(mixFails)

SpecBuild == Init /\ [][NextBuild]_vars

(***************************************************************************)
(* SpecTwice: Create is called again and again while the listener adds     *)
(* packets between two calls; no write and no file creation fails.         *)
(***************************************************************************)
\* What a call of Create has read, returned and written: the bytes of the
\* file of every speaker.
Built ==
    [seen |-> seen, recordingDuration |-> recordingDuration, result |-> result,
     written |-> [s \in DOMAIN streams |-> fs[streams[s].encoder.writer]]]

\* Create has returned to its caller, which may call it again.
CreateReturn ==
    /\ bpc = "done"
    /\ Len(earlier) < MaxBuilds
    /\ earlier' = Append(earlier, Built)
    /\ bpc' = "fill"
    /\ UNCHANGED <<bufVars, lockVars, procVars, clock, histVars, rtp, fileVars, encVars,
                   hdrVars, chanVars, pageVars, syncVars, botVars, listenVars, issued, process,
                   bIter, recordingDuration, streamStartTime, streams, files,
                   result, mixed, removed, seen, ticks>>

NextTwice ==
    \/ \E ssrc \in SSRCs, first \in FirstTimestamps, dt \in ArrivalGaps :
          ListenerAdd(ssrc, first, 0, dt)
    \/ \E duration \in Durations : CreateBegin(duration)
    \/ LoopPass(FALSE, NoFault)
    \/ LoopExit(FALSE)
    \/ CreateReturn

SpecTwice == Init /\ [][NextTwice]_vars

(***************************************************************************)
(* SpecSync: the arithmetic of createStreamFiles on the packets of one     *)
(* speaker whose uint32 timestamp comes close to 2^32.  A sample index     *)
(* here is a number of blocks of PcmUnit samples: PcmUnit divides both     *)
(* FrameSize and 2^32, so sums, differences and quotients by the frame     *)
(* size of indexes that are multiples of PcmUnit are the same in blocks.   *)
(***************************************************************************)
PcmUnit == 32

\* FrameSize, in blocks.
UnitFrameSize == FrameSize \div PcmUnit

\* 2^32, the modulus of pkt.Timestamp, in blocks.
Uint32Units == 2^27

\* Timestamps of the speaker's first packet, in blocks: one and two frames
\* before the counter wraps, and far from it.
FirstUnits == {Uint32Units - UnitFrameSize, Uint32Units - 2 * UnitFrameSize,
               100 * UnitFrameSize}

\* Frames lost between two packets of the speaker.
SyncMissed == {0, 1, 2}

\* What the timestamp advances by beyond whole frames of 20 ms, in blocks:
\* nothing, or the 480 samples of a frame of 10 ms.
SyncOffsets == {0, UnitFrameSize \div 2}

\* One Encode call on the stream.
Emitted(silent, granule, missed) ==
    [silent |-> silent, granule |-> granule, missed |-> missed]

\* The silent frames of the padding loop: Encode(silentFrame, last + (i+1)*FrameSize).
SyncPadding(lastPCMIndex, packetsToPad) ==
    [i \in 1..(IF packetsToPad > 0 THEN packetsToPad ELSE 0) |->
        Emitted(TRUE, lastPCMIndex + i * UnitFrameSize, 0)]

\* The loop pass for the speaker's first packet, which is also the first of
\* the replay: pcmSamplesToPad is 0 and lastPCMIndex starts at pkt.PCMIndex.
SyncFirst(first) ==
    /\ syncStream = <<>>
    /\ syncRtp' = first
    /\ syncOut' = SyncPadding(first, PacketsToPadIn(UnitFrameSize, first, first))
                     \o <<Emitted(FALSE, first, 0)>>
    /\ syncStream' = <<[lastPCMIndex |-> first]>>
    /\ UNCHANGED <<baseVars, botVars, tailVars>>

\* The loop pass for a later packet, `missed` frames and `extra` blocks after
\* the last one: its uint32 timestamp has advanced modulo 2^32.
SyncNext(missed, extra) ==
    /\ syncStream # <<>>
    /\ Cardinality({i \in 1..Len(syncOut) : ~syncOut[i].silent}) < MaxSyncPackets
    /\ \E pcm \in {(syncRtp + (missed + 1) * UnitFrameSize + extra) % Uint32Units} :
          /\ syncRtp' = pcm
          /\ syncOut' = syncOut
                \o SyncPadding(syncStream[1].lastPCMIndex,
                               PacketsToPadIn(UnitFrameSize, pcm,
                                              syncStream[1].lastPCMIndex))
                \o <<Emitted(FALSE, pcm, missed)>>
          /\ syncStream' = <<[lastPCMIndex |-> pcm]>>
    /\ UNCHANGED <<baseVars, botVars, tailVars>>

NextSync ==
    \/ \E first \in FirstUnits : SyncFirst(first)
    \/ \E missed \in SyncMissed, extra \in SyncOffsets : SyncNext(missed, extra)

SpecSync == Init /\ [][NextSync]_vars

(***************************************************************************)
(* SpecJoin and SpecBot: the Bot.  discordgo keeps the guild's voice       *)
(* states and runs each handler in a goroutine of its own, so the state    *)
(* may change between two reads of a handler.  Durations are in seconds.   *)
(***************************************************************************)
\* The users of the guild: u2 is a bot account, u3 moves only in SpecJoin.
GuildUsers == {"u1", "u2", "u3"}

VoiceChannels == {"a", "b"}

\* <<SelfMute, SelfDeaf>> of a voice state.
VoiceFlags == {<<FALSE, FALSE>>, <<TRUE, FALSE>>, <<FALSE, TRUE>>}

\* The state replaces user u's voice state: in channel c with flags f, or in
\* no voice channel any more.
GuildVoiceState(u, c, f) ==
    /\ voiceStates' = {vs \in voiceStates : vs.UserID # u} \cup
          (IF c = NoChannel THEN {}
           ELSE {[UserID |-> u, ChannelID |-> c, SelfMute |-> f[1], SelfDeaf |-> f[2]]})
    /\ voiceStates' # voiceStates
    /\ UNCHANGED <<baseVars, syncVars, tailVars, joinAsk, currentChannel, request, handled>>

\* findChannelToJoin with every voice state counted.
findChannelToJoinAll(states) ==
    LET memberCount(c) == Cardinality({vs \in states : vs.ChannelID = c})
        channelMembers == {c \in VoiceChannels : memberCount(c) > 0}
    IN  IF channelMembers = {} THEN {NoChannel}
        ELSE {c \in channelMembers :
                 \A d \in channelMembers : memberCount(d) <= memberCount(c)}

\* Bot.findChannelToJoin: the values it can return.  channelMembers counts
\* the voice states that are neither self-muted nor self-deafened; the range
\* over the map keeps the first channel of the greatest count it meets, in
\* an order Go leaves unspecified, and result stays nil over an empty map.
findChannelToJoin(states) ==
    LET memberCount(c) ==
            Cardinality({vs \in states : /\ vs.ChannelID = c
                                         /\ ~(vs.SelfMute \/ vs.SelfDeaf)})
        channelMembers == {c \in VoiceChannels : memberCount(c) > 0}
    IN  IF channelMembers = {} THEN {NoChannel}
        ELSE {c \in channelMembers :
                 \A d \in channelMembers : memberCount(d) <= memberCount(c)}

\* Bot.joinVoiceChannel, run by the voice state update handler and once by
\* Run: m.JoinChannel(chanID) sends on the unbuffered m.voiceChannelToJoin.
joinVoiceChannel ==
    /\ joinAsk = NoAsk
    /\ \E chanID \in findChannelToJoin(voiceStates) : joinAsk' = chanID
    /\ UNCHANGED <<baseVars, syncVars, tailVars, voiceStates, currentChannel, request, handled>>

\* Manager.run receives the channel and handleJoinRequest connects, moves or
\* disconnects: m.currentChannel becomes the channel asked for.
handleJoinRequest ==
    /\ joinAsk # NoAsk
    /\ currentChannel' = joinAsk
    /\ joinAsk' = NoAsk
    /\ UNCHANGED <<baseVars, syncVars, tailVars, voiceStates, request, handled>>

NextJoin ==
    \/ \E u \in GuildUsers, c \in VoiceChannels \cup {NoChannel}, f \in VoiceFlags :
          GuildVoiceState(u, c, f)
    \/ joinVoiceChannel
    \/ handleJoinRequest

SpecJoin == Init /\ [][NextJoin]_vars

defaultDuration == 30

maxDuration == 60

\* b.guildID and another guild.
Guilds == {"guild", "elsewhere"}

\* i.Member: nil, without a User, the bot account u2, the user u1.
Requesters ==
    {[Member |-> FALSE, User |-> FALSE, ID |-> "", Bot |-> FALSE],
     [Member |-> TRUE, User |-> FALSE, ID |-> "", Bot |-> FALSE],
     [Member |-> TRUE, User |-> TRUE, ID |-> "u2", Bot |-> TRUE],
     [Member |-> TRUE, User |-> TRUE, ID |-> "u1", Bot |-> FALSE]}

\* data.Options: none, or the one option of the command.  Its value is a
\* float64 given in tenths of a second, or a value of another type.
OptionTenths == {-15, 25, 599, 600, 609, 610, 9000}

Options ==
    {<<>>, <<[Float |-> FALSE, Tenths |-> 0]>>}
       \cup {<<[Float |-> TRUE, Tenths |-> t]>> : t \in OptionTenths}

\* The interactions: i.GuildID, whether i.Data is command data, i.Member,
\* data.Options.  Those of another guild or with other data come from u1
\* only.
Interactions ==
    {i \in [GuildID : Guilds, Data : BOOLEAN, Member : Requesters, Options : Options] :
        \/ i.GuildID = "guild" /\ i.Data
        \/ i.Member.ID = "u1" /\ ~i.Member.Bot}

\* Bot.isInVoiceChannel.
isInVoiceChannelAny(states, voiceChannelID, userID) ==
    \E vs \in states : vs.UserID = userID

isInVoiceChannel(states, voiceChannelID, userID) ==
    \E vs \in states : vs.ChannelID = voiceChannelID /\ vs.UserID = userID

\* time.Duration(1e9 * int64(v)) with no upper limit.
DurationUnclamped(v) == Quot(v.Tenths, 10)

\* time.Duration(1e9 * int64(v)), int64(v) cutting the fraction, then
\* duration = maxDuration if it is greater.
Duration(v) ==
    IF Quot(v.Tenths, 10) > maxDuration THEN maxDuration ELSE Quot(v.Tenths, 10)

\* What became of interaction i, handled with CurrentChannelID() = chanID.
Handled(i, chanID, outcome, duration) ==
    [i |-> i, currentChannel |-> chanID, outcome |-> outcome, duration |-> duration]

\* Bot.handleReplayCommand up to currentChannel := manager.CurrentChannelID().
handleReplayCommand(i) ==
    /\ request = <<>>
    /\ IF i.GuildID # "guild"
       THEN /\ handled' = <<Handled(i, NoChannel, "discarded", <<>>)>>
            /\ UNCHANGED request
       ELSE IF ~i.Data
       THEN /\ handled' = <<Handled(i, NoChannel, "error", <<>>)>>
            /\ UNCHANGED request
       ELSE /\ request' = <<[i |-> i, currentChannel |-> currentChannel]>>
            /\ handled' = <<>>
    /\ UNCHANGED <<baseVars, syncVars, tailVars, voiceStates, joinAsk, currentChannel>>

\* Bot.handleReplayCommand from there on: the rejections, isInVoiceChannel on
\* the guild's state of that moment, the duration, the deferred response
\* (failed: the handler returns the error) and b.replayCmd.Run.
handleReplayCommandEnd(failed) ==
    /\ request # <<>>
    /\ request' = <<>>
    /\ \E i \in {request[1].i}, chanID \in {request[1].currentChannel} :
          handled' = <<Handled(i, chanID,
              IF chanID = NoChannel THEN "not connected"
              ELSE IF ~i.Member.Member THEN "not in a server"
              ELSE IF ~i.Member.User THEN "error"
              ELSE IF i.Member.Bot THEN "discarded"
              ELSE IF ~isInVoiceChannel(voiceStates, chanID, i.Member.ID)
              THEN "not in the voice channel"
              ELSE IF Len(i.Options) = 1 /\ ~i.Options[1].Float THEN "error"
              ELSE IF failed THEN "error"
              ELSE "run",
              IF Len(i.Options) = 1 THEN <<Duration(i.Options[1])>>
              ELSE <<defaultDuration>>)>>
    /\ UNCHANGED <<baseVars, syncVars, tailVars, voiceStates, joinAsk, currentChannel>>

NextBot ==
    \/ \E u \in {"u1", "u2"}, c \in VoiceChannels \cup {NoChannel},
          f \in {<<FALSE, FALSE>>, <<TRUE, FALSE>>} : GuildVoiceState(u, c, f)
    \/ joinVoiceChannel
    \/ handleJoinRequest
    \/ \E i \in Interactions : handleReplayCommand(i)
    \/ \E failed \in BOOLEAN : handleReplayCommandEnd(failed)

SpecBot == Init /\ [][NextBot]_vars

(***************************************************************************)
(* SpecListen: the Manager connects and disconnects, and every connect     *)
(* starts a goroutine that feeds the buffer from the connection's OpusRecv *)
(* until it finds its stop channel closed.  The goroutine evaluates the    *)
(* field m.stopListenersCh anew each time it enters the select, without    *)
(* the Manager's lock: the read races with the writes of connect and       *)
(* disconnect, and yields the field's value or the value the goroutine     *)
(* last saw there.                                                         *)
(***************************************************************************)
\* Manager.connectToNewVoiceChannel, for handleJoinRequest with a channel
\* while m.currentChannel is nil: join, make the stop channel, go func().
connectToNewVoiceChannel(channelID) ==
    /\ currentChannel = NoChannel
    /\ Len(listeners) < MaxConnects
    /\ Len(issued) < MaxJoins
    /\ size' = 0
    /\ nextPosition' = 0
    /\ sinceReset' = 0
    /\ resets' = resets + 1
    /\ currentChannel' = channelID
    /\ stopListenersCh' = Len(listeners) + 1
    /\ listeners' = Append(listeners, [pc |-> "for", stop |-> Len(listeners) + 1])
    /\ opusRecv' = Append(opusRecv, 0)
    /\ issued' = Append(issued, [ask |-> channelID, op |-> "join"])
    /\ UNCHANGED <<buffer, added, lockVars, procVars, clock, rtp, fileVars, encVars,
                   buildVars, hdrVars, chanVars, pageVars, syncVars, earlier, process, closed,
                   voiceStates, joinAsk, request, handled>>

\* Mutant: no channel is taken for the one the bot is in.
AlreadyThereNever(current, channelID) == FALSE

\* if m.currentChannel.ChannelID == channelID
AlreadyThere(current, channelID) == current = channelID

\* Manager.changeChannel, for handleJoinRequest with a channel while
\* m.currentChannel is set: nothing for the channel the bot is in, else
\* Reset and ChangeChannel, which sets the connection's ChannelID.
changeChannel(channelID) ==
    /\ currentChannel # NoChannel
    /\ Len(issued) < MaxJoins
    /\ IF AlreadyThere(currentChannel, channelID)
       THEN /\ issued' = Append(issued, [ask |-> channelID, op |-> "none"])
            /\ UNCHANGED <<size, nextPosition, sinceReset, resets, currentChannel>>
       ELSE /\ size' = 0
            /\ nextPosition' = 0
            /\ sinceReset' = 0
            /\ resets' = resets + 1
            /\ currentChannel' = channelID
            /\ issued' = Append(issued, [ask |-> channelID, op |-> "move"])
    /\ UNCHANGED <<buffer, added, lockVars, procVars, clock, rtp, fileVars, encVars,
                   buildVars, hdrVars, chanVars, pageVars, syncVars, earlier, process, listenVars,
                   voiceStates, joinAsk, request, handled>>

\* Manager.disconnectFromChannel while connected: close(m.stopListenersCh),
\* m.stopListenersCh = nil, Disconnect, m.currentChannel = nil.
disconnectFromChannel ==
    /\ currentChannel # NoChannel
    /\ Len(issued) < MaxJoins
    /\ closed' = closed \cup {stopListenersCh}
    /\ stopListenersCh' = 0
    /\ currentChannel' = NoChannel
    /\ issued' = Append(issued, [ask |-> NoChannel, op |-> "disconnect"])
    /\ UNCHANGED <<baseVars, syncVars, earlier, process, listeners, opusRecv, voiceStates,
                   joinAsk, request, handled>>

\* The voice connection in use puts a packet on its OpusRecv.
PacketArrives ==
    /\ currentChannel # NoChannel
    /\ opusRecv[Len(opusRecv)] = 0
    /\ opusRecv' = [opusRecv EXCEPT ![Len(opusRecv)] = 1]
    /\ UNCHANGED <<baseVars, syncVars, earlier, issued, process, stopListenersCh, closed, listeners,
                   botVars>>

\* Goroutine k enters the select: m.stopListenersCh is evaluated.
ListenSelect(k) ==
    /\ k \in 1..Len(listeners)
    /\ listeners[k].pc = "for"
    /\ \E ch \in {stopListenersCh, listeners[k].stop} :
          listeners' = [listeners EXCEPT ![k] = [pc |-> "select", stop |-> ch]]
    /\ UNCHANGED <<baseVars, syncVars, earlier, issued, process, stopListenersCh, closed, opusRecv,
                   botVars>>

\* case pkt := <-c.OpusRecv, on the connection the goroutine was started for.
ListenPacket(k) ==
    /\ k \in 1..Len(listeners)
    /\ listeners[k].pc = "select"
    /\ opusRecv[k] = 1
    /\ opusRecv' = [opusRecv EXCEPT ![k] = 0]
    /\ listeners' = [listeners EXCEPT ![k].pc = "add"]
    /\ UNCHANGED <<baseVars, syncVars, earlier, issued, process, stopListenersCh, closed, botVars>>

\* m.audioBuffer.Add(time.Now(), *pkt) returns and the loop starts over.
ListenAdded(k) ==
    /\ k \in 1..Len(listeners)
    /\ listeners[k].pc = "add"
    /\ listeners' = [listeners EXCEPT ![k].pc = "for"]
    /\ UNCHANGED <<baseVars, syncVars, earlier, issued, process, stopListenersCh, closed, opusRecv,
                   botVars>>

\* case <-m.stopListenersCh: a receive from a closed channel; one from a nil
\* channel never proceeds.
ListenStopped(k) ==
    /\ k \in 1..Len(listeners)
    /\ listeners[k].pc = "select"
    /\ listeners[k].stop \in closed
    /\ listeners[k].stop # 0
    /\ listeners' = [listeners EXCEPT ![k].pc = "return"]
    /\ UNCHANGED <<baseVars, syncVars, earlier, issued, process, stopListenersCh, closed, opusRecv,
                   botVars>>

NextListen ==
    \/ \E channelID \in VoiceChannels : connectToNewVoiceChannel(channelID)
    \/ disconnectFromChannel
    \/ PacketArrives
    \/ \E k \in 1..MaxConnects :
          ListenSelect(k) \/ ListenPacket(k) \/ ListenAdded(k) \/ ListenStopped(k)

\* A goroutine that can run does run: the Go scheduler starves none.
ListenFairness ==
    \A k \in 1..MaxConnects :
        /\ WF_vars(ListenSelect(k))
        /\ WF_vars(ListenPacket(k))
        /\ WF_vars(ListenAdded(k))
        /\ WF_vars(ListenStopped(k))

SpecListen == Init /\ [][NextListen]_vars /\ ListenFairness

(***************************************************************************)
(* SpecRun: main and run keep a Bot running.  Bot.Run registers its        *)
(* handlers, opens the session, creates the command, waits for the ready   *)
(* channel and then for its two goroutines; the session delivers Ready     *)
(* events to the handler registered, and an interrupt cancels the context. *)
(***************************************************************************)
\* run returned err to main: os.Exit(0) for nil and context.Canceled, 2 for
\* an error that is no UserError.
ExitStatus(err) == IF err \in {"nil", "context canceled"} THEN 0 ELSE 2

\* Bot.Run returned err to runBot and run: the loop goes on unless err is an
\* error other than panicError.
RunReturned(err) ==
    IF err \in {"nil", "panic"}
    THEN [process EXCEPT !.pc = "loop", !.onReadyCh = "none", !.closes = 0,
                         !.joined = FALSE, !.waited = FALSE, !.err = "nil"]
    ELSE [process EXCEPT !.pc = "exit", !.onReadyCh = "none", !.closes = 0,
                         !.joined = FALSE, !.waited = FALSE, !.err = err,
                         !.status = ExitStatus(err)]

\* run's loop calls runBot, and Bot.Run creates the manager and registers the
\* on-ready handler, with a new channel, and the voice state handler.
RunStart ==
    /\ process.pc = "loop"
    /\ process' = [process EXCEPT !.pc = "registered", !.onReadyCh = "open",
                                  !.starts = Min(@ + 1, MaxStarts)]
    /\ UNCHANGED <<baseVars, syncVars, botVars, earlier, listenVars, issued>>

\* b.openDiscordSession()
openDiscordSession(fails) ==
    /\ process.pc = "registered"
    /\ process' = IF fails THEN RunReturned("failed to open session")
                  ELSE [process EXCEPT !.pc = "opened"]
    /\ UNCHANGED <<baseVars, syncVars, botVars, earlier, listenVars, issued>>

\* b.createReplayCommand() and registerInteractionCreateHandler; Run then
\* blocks in waitToBeReady.
createReplayCommand(fails) ==
    /\ process.pc = "opened"
    /\ process' = IF fails THEN RunReturned("could not create command")
                  ELSE [process EXCEPT !.pc = "wait"]
    /\ UNCHANGED <<baseVars, syncVars, botVars, earlier, listenVars, issued>>

\* The open session delivers a Ready event and the handler registered runs
\* close(onReadyCh) on a goroutine of the session: closing a closed channel
\* panics there and ends the process.
OnReady ==
    /\ process.pc \in {"opened", "wait", "group"}
    /\ process.closes < MaxReadys
    /\ process' = IF process.onReadyCh = "open"
                  THEN [process EXCEPT !.onReadyCh = "closed", !.closes = @ + 1]
                  ELSE [process EXCEPT !.pc = "panic", !.closes = @ + 1]
    /\ UNCHANGED <<baseVars, syncVars, botVars, earlier, listenVars, issued>>

\* waitToBeReady: <-ch returns once the channel is closed; Run starts its two
\* goroutines and blocks in g.Wait().
waitToBeReady ==
    /\ process.pc = "wait"
    /\ process.onReadyCh = "closed"
    /\ process' = [process EXCEPT !.pc = "group"]
    /\ UNCHANGED <<baseVars, syncVars, botVars, earlier, listenVars, issued>>

\* g.Go(func() error { return b.joinVoiceChannel(manager) }) returns.
JoinReturns(fails) ==
    /\ process.pc = "group"
    /\ ~process.joined
    /\ process' = [process EXCEPT !.joined = TRUE,
                      !.err = IF fails THEN "failed to find channel" ELSE "nil"]
    /\ UNCHANGED <<baseVars, syncVars, botVars, earlier, listenVars, issued>>

\* The interrupt signal: signal.NotifyContext cancels the context of run.
Interrupt ==
    /\ process.pc \notin {"exit", "panic"}
    /\ ~process.ctxDone
    /\ process' = [process EXCEPT !.ctxDone = TRUE]
    /\ UNCHANGED <<baseVars, syncVars, botVars, earlier, listenVars, issued>>

\* g.Go(func() error { ...; <-ctx.Done(); return nil }) returns: the context
\* of the group is done when run's is, or when the first goroutine has
\* returned an error.
DoneReturns ==
    /\ process.pc = "group"
    /\ ~process.waited
    /\ process.ctxDone \/ process.err # "nil"
    /\ process' = [process EXCEPT !.waited = TRUE]
    /\ UNCHANGED <<baseVars, syncVars, botVars, earlier, listenVars, issued>>

\* What g.Wait() returns: the first error of the two goroutines; the one
\* that waits for ctx.Done() returns nil.
GroupError == process.err

\* g.Wait() returns when both goroutines have returned, and Run returns
\* its error; the deferred cleanups of Run start with the handlers of the
\* command, then close the session.
GroupWait ==
    /\ process.pc = "group"
    /\ process.joined
    /\ process.waited
    /\ process' = [process EXCEPT !.pc = "cleanup", !.err = GroupError]
    /\ UNCHANGED <<baseVars, syncVars, botVars, earlier, listenVars, issued>>

\* The deferred cleanups of Run end: the voice state handler and the on-ready
\* handler are removed, the manager is stopped, and Run has returned.
RunReturns ==
    /\ process.pc = "cleanup"
    /\ process' = RunReturned(process.err)
    /\ UNCHANGED <<baseVars, syncVars, botVars, earlier, listenVars, issued>>

NextRun ==
    \/ RunStart
    \/ \E fails \in BOOLEAN : openDiscordSession(fails)
    \/ \E fails \in BOOLEAN : createReplayCommand(fails)
    \/ OnReady
    \/ waitToBeReady
    \/ \E fails \in BOOLEAN : JoinReturns(fails)
    \/ Interrupt
    \/ DoneReturns
    \/ GroupWait
    \/ RunReturns

\* The goroutines of the process run when they can, the session opens and
\* the command is created in the end, and the first Ready event of a session
\* arrives.
RunFairness ==
    /\ WF_vars(RunStart)
    /\ WF_vars(openDiscordSession(FALSE))
    /\ WF_vars(createReplayCommand(FALSE))
    /\ WF_vars(process.onReadyCh = "open" /\ OnReady)
    /\ WF_vars(waitToBeReady)
    /\ WF_vars(\E fails \in BOOLEAN : JoinReturns(fails))
    /\ WF_vars(DoneReturns)
    /\ WF_vars(GroupWait)
    /\ WF_vars(RunReturns)

SpecRun == Init /\ [][NextRun]_vars /\ RunFairness

(***************************************************************************)
(* SpecMove: the Manager handles join requests, for a channel or for none, *)
(* while the listener of the connection in use adds packets to the buffer. *)
(***************************************************************************)
NextMove ==
    \/ \E channelID \in VoiceChannels : connectToNewVoiceChannel(channelID)
    \/ \E channelID \in VoiceChannels : changeChannel(channelID)
    \/ disconnectFromChannel
    \/ /\ currentChannel # NoChannel
       /\ \E first \in FirstTimestamps, dt \in ArrivalGaps : ListenerAdd(1, first, 0, dt)

SpecMove == Init /\ [][NextMove]_vars

(***************************************************************************)
(* SpecHold: Create runs while the listener goroutine adds packets and the *)
(* manager resets the buffer; the end of create is taken in two steps.     *)
(***************************************************************************)
\* The iterator is exhausted: createStreamFiles returns nil and create
\* reports NoAudioDataErr or runs mixFiles, which waits for ffmpeg.
MixFiles(mixFails) ==
    /\ bpc = "loop"
    /\ ~HasNext(bIter)
    /\ IF Len(files) = 0
       THEN /\ result' = "NoAudioData"
            /\ mixed' = mixed
       ELSE /\ mixed' = Append(mixed, files)
            /\ result' = IF mixFails THEN ErrMix ELSE "nil"
    /\ bpc' = "mixed"
    /\ UNCHANGED <<bufVars, lockVars, procVars, clock, histVars, rtp, fileVars, encVars,
                   hdrVars, pageVars, auxVars, chanVars, bIter, recordingDuration,
                   streamStartTime, streams, files, removed, seen, ticks>>

\* create returns: its deferred function removes the files, then the
\* callback returns to WithIterator, whose deferred RUnlock runs.
CreateEnd ==
    /\ bpc = "mixed"
    /\ removed' = removed \cup {files[k] : k \in 1..Len(files)}
    /\ rwReaders' = rwReaders \ {"create"}
    /\ bpc' = "done"
    /\ UNCHANGED <<bufVars, rwWriter, procVars, clock, histVars, rtp, fileVars, encVars,
                   hdrVars, pageVars, auxVars, chanVars, bIter, recordingDuration,
                   streamStartTime, streams, files, result, mixed, seen, ticks>>

NextHold ==
    \/ ListenerRecv(1, 0, 0, FrameLengthMs)
    \/ \E w \in Writers : LockAnnounce(w)
    \/ \E w \in Writers : LockAcquire(w)
    \/ AddBody
    \/ ResetCall
    \/ ResetBody
    \/ ChangeChannel
    \/ \E duration \in Durations : CreateBegin(duration)
    \/ LoopPass(FALSE, NoFault)
    \/ \E mixFails \in BOOLEAN : MixFiles(mixFails)
    \/ CreateEnd

SpecHold == Init /\ [][NextHold]_vars

(***************************************************************************)
(* Reading pages back from the bytes of a sink.                            *)
(***************************************************************************)
RECURSIVE FromBigEndian(_, _)
\* The number whose digits base 256 are bs[1..k], most significant first.
FromBigEndian(bs, k) ==
    IF k = 0 THEN 0 ELSE 256 * FromBigEndian(bs, k - 1) + bs[k]

Reverse(bs) == [k \in 1..Len(bs) |-> bs[Len(bs) + 1 - k]]

\* The unsigned number written little-endian as bs.
FromLittleEndian(bs) == FromBigEndian(Reverse(bs), Len(bs))

\* The signed (two's complement) number written little-endian as bs.
FromLittleEndianSigned(bs) ==
    IF bs[Len(bs)] < 128 THEN FromLittleEndian(bs)
    ELSE -(FromLittleEndian([k \in 1..Len(bs) |-> 255 - bs[k]]) + 1)

\* The page that starts after the first `off` bytes.
PageAt(bytes, off) ==
    LET count == bytes[off + 27]
        table == SubSeq(bytes, off + 28, off + 27 + count)
        body == SubSeq(bytes, off + 28 + count, off + 27 + count + Sum(table))
    IN  [capture |-> SubSeq(bytes, off + 1, off + 4),
         version |-> bytes[off + 5],
         headerType |-> bytes[off + 6],
         granule |-> FromLittleEndianSigned(SubSeq(bytes, off + 7, off + 14)),
         serial |-> FromLittleEndian(SubSeq(bytes, off + 15, off + 18)),
         sequence |-> FromLittleEndian(SubSeq(bytes, off + 19, off + 22)),
         crc |-> SubSeq(bytes, off + 23, off + 26),
         table |-> table,
         body |-> body,
         end |-> off + 27 + count + Sum(table)]

RECURSIVE PagesFrom(_, _, _)
\* The first n pages after the first `off` bytes.
PagesFrom(bytes, off, n) ==
    IF n = 0 THEN <<>>
    ELSE LET p == PageAt(bytes, off)
         IN  <<p>> \o PagesFrom(bytes, p.end, n - 1)

\* The calls on file f before its first call that did not end "ok".
RECURSIVE OkPrefix(_, _)
OkPrefix(cs, k) ==
    IF k > Len(cs) \/ cs[k].end # "ok" THEN k - 1 ELSE OkPrefix(cs, k + 1)

\* The pages of file f written before any call failed, read from its bytes.
Pages(f) == PagesFrom(fs[f], 0, OkPrefix(calls[f], 1))

(***************************************************************************)
(* Properties of the encoder, checked under SpecEnc.                       *)
(***************************************************************************)
\* floor(n / 255) entries of 255, then n mod 255.
ExpectedTable(n) ==
    [k \in 1..(n \div 255 + 1) |-> IF k <= n \div 255 THEN 255 ELSE n % 255]

\* C9: the page written for a payload of n < 65025 bytes has a segment table
\* of floor(n/255) entries 255 followed by one entry n mod 255 (so 0 for a
\* multiple of 255, and the single entry 0 for an empty payload), whose
\* entries sum to n.
C9_SegmentTable ==
    \A f \in DOMAIN calls :
        \A k \in 1..OkPrefix(calls[f], 1) :
            LET n == Len(calls[f][k].packetData)
                p == Pages(f)[k]
            IN  n < 65025 =>
                    /\ p.table = ExpectedTable(n)
                    /\ calls[f][k].page.Header.SegmentTable = ExpectedTable(n)
                    /\ Sum(p.table) = n
                    /\ p.body = calls[f][k].packetData

\* A 510-byte and an empty payload have both been written.
C9_Witness ==
    /\ encPc = "ready"
    /\ OkPrefix(calls[1], 1) = 4
    /\ Len(calls[1][3].packetData) = 510
    /\ Pages(1)[3].table = <<255, 255, 0>>
    /\ Len(calls[1][4].packetData) = 0
    /\ Pages(1)[4].table = <<0>>

\* C10: constructing an Encoder writes exactly two pages before any audio
\* page: the identification header, then the comment header, both at granule
\* position 0, the first flagged first-of-stream and the second not, neither
\* flagged continued.
C10_HeaderPages ==
    encoder # <<>> =>
        LET f == encoder[1].writer
            p == PagesFrom(fs[f], 0, 2)
        IN  /\ Len(calls[f]) >= 2
            /\ p[1].body = IdHeaderBytes(opusIdentificationHeader)
            /\ p[2].body = CommentHeaderBytes(VendorString)
            /\ p[1].granule = 0 /\ p[2].granule = 0
            /\ p[1].headerType = firstPageFlag
            /\ p[2].headerType = 0
            /\ \A k \in 3..Len(calls[f]) :
                  /\ calls[f][k].packetData # IdHeaderBytes(opusIdentificationHeader)
                  /\ calls[f][k].packetData # CommentHeaderBytes(VendorString)

\* An audio page follows the two header pages.
C10_Witness ==
    /\ encoder # <<>>
    /\ OkPrefix(calls[1], 1) = 3
    /\ Pages(1)[3].body = Payload(3)

\* The calls on file f that ended "ok", by their place among the calls.
OkCalls(f) == {k \in 1..Len(calls[f]) : calls[f][k].end = "ok"}

\* C11: every successful Encode call writes exactly one page, which carries
\* exactly the call's payload, and the pages an encoder writes are numbered
\* 1, 2, 3, ... with no number repeated or skipped, header pages included.
C11_OnePagePerCall ==
    \A f \in DOMAIN calls :
        /\ \A k \in OkCalls(f) :
              calls[f][k].page.Header.PageSequenceNumber
                  = Cardinality({j \in OkCalls(f) : j <= k})
        /\ \A k \in 1..OkPrefix(calls[f], 1) :
              /\ Pages(f)[k].sequence = k
              /\ Pages(f)[k].body = calls[f][k].packetData
        /\ OkPrefix(calls[f], 1) = Len(calls[f]) /\ Len(calls[f]) > 0 =>
              Pages(f)[Len(calls[f])].end = Len(fs[f])

\* C11 witness: two header pages and two audio pages were written, the last
\* numbered 4, after which the sink holds nothing else.
C11_Witness ==
    /\ encPc = "ready"
    /\ Len(calls[1]) = 4
    /\ OkCalls(1) = 1..4
    /\ Pages(1)[4].sequence = 4
    /\ Pages(1)[4].end = Len(fs[1])

\* C23: every page an encoder writes is flagged neither continued nor last
\* of its stream and carries the one serial number; exactly the first page it
\* writes is flagged first of its stream, in the page it builds and in the
\* bytes of the sink.
C23_PageFlags ==
    \A f \in DOMAIN calls :
        /\ \A k \in OkCalls(f) :
              /\ ~calls[f][k].page.Header.Continued
              /\ ~calls[f][k].page.Header.LastPage
              /\ calls[f][k].page.Header.BitstreamSerialNumber = BitstreamSerialNumber
              /\ calls[f][k].page.Header.FirstPage <=> (\A j \in OkCalls(f) : k <= j)
        /\ \A k \in 1..OkPrefix(calls[f], 1) :
              /\ Pages(f)[k].headerType = IF k = 1 THEN firstPageFlag ELSE 0
              /\ Pages(f)[k].serial = BitstreamSerialNumber

\* C23 witness: after the two header pages an audio page failed on a write
\* and a later one was written.
C23_Witness ==
    /\ Len(calls) = 1
    /\ Len(calls[1]) = 4
    /\ OkCalls(1) = {1, 2, 4}
    /\ Pages(1)[2].headerType = 0
    /\ ~calls[1][4].page.Header.FirstPage

\* The sequencing state an Encode call started from, read off its page.
StateAt(c) ==
    [firstPage |-> c.page.Header.FirstPage,
     sequenceNumber |-> c.page.Header.PageSequenceNumber]

\* The sequencing state of a bitstreamEncoder.
Sequencing(s) == [firstPage |-> s.firstPage, sequenceNumber |-> s.sequenceNumber]

\* C35: an Encode call that fails while it writes its page leaves the page
\* sequence number and the first-of-stream marker as they were: the call
\* that follows builds its page from the same two, and so does the encoder
\* when the failed call was the last; a failed first page of a new bitstream
\* leaves the state of newBitstreamEncoder.
C35_FailedEncodeKeepsState ==
    /\ \A f \in DOMAIN calls :
          \A k \in 1..Len(calls[f]) :
             calls[f][k].end = "error" =>
                /\ k < Len(calls[f]) => StateAt(calls[f][k + 1]) = StateAt(calls[f][k])
                /\ (k = Len(calls[f]) /\ f \in DOMAIN encoder) =>
                       Sequencing(encoder[f]) = StateAt(calls[f][k])
    /\ encPc = "failed" =>
          \A fault \in Faults :
             \A r \in {Encode(newBitstreamEncoder(1), <<>>, fault,
                              IdHeaderBytes(opusIdentificationHeader), 0)} :
                r.call.end = "error" => r.state = newBitstreamEncoder(1)

\* C35 witness: after the header pages an audio page failed on a write and
\* the next call wrote its page, numbered 3 like the failed one.
C35_Witness ==
    /\ Len(calls) = 1
    /\ Len(calls[1]) = 4
    /\ calls[1][3].end = "error"
    /\ calls[1][4].end = "ok"
    /\ calls[1][4].page.Header.PageSequenceNumber = 3
    /\ encoder[1].sequenceNumber = 4

\* The number of bytes of a page: 27 of fixed header, the table, the segments.
PageLength(p) == 27 + Len(p.Header.SegmentTable) + Len(p.Segments)

\* C12 (as stated): of the page of every Encode call either all bytes are in
\* the sink or, when a write failed, none: the sink of a file holds the pages
\* of the calls that ended "ok" and no other byte.
C12_AtomicPage ==
    \A f \in DOMAIN calls :
        Len(fs[f]) = Sum([k \in 1..Len(calls[f]) |->
                            IF calls[f][k].end = "ok"
                            THEN PageLength(calls[f][k].page) ELSE 0])

\* C13: reading the bytes of a sink page by page, each page delimited by its
\* segment table, recovers for every Encode(payload, g) call, in call order,
\* a page with granule position g whose segments joined are the payload
\* (for the calls made before any write to the sink failed).
C13_RoundTrip ==
    \A f \in DOMAIN calls :
        \A k \in 1..OkPrefix(calls[f], 1) :
            /\ Pages(f)[k].capture = <<79, 103, 103, 83>>
            /\ Pages(f)[k].granule = calls[f][k].granulePosition
            /\ Pages(f)[k].body = calls[f][k].packetData
            /\ Len(Pages(f)[k].body) = Len(calls[f][k].packetData)

\* C13 witness: a 510-byte payload at granule position -960 and a 255-byte
\* one at 960 were written after the header pages and are read back.
C13_Witness ==
    /\ encPc = "ready"
    /\ OkPrefix(calls[1], 1) = 4
    /\ Pages(1)[3].granule = -960
    /\ Pages(1)[3].body = Payload(510)
    /\ Pages(1)[4].granule = 960
    /\ Pages(1)[4].body = Payload(255)

\* The CRC-32 of the claim, bit by bit: polynomial 0x04C11DB7, most
\* significant bit first, initial value 0, no final XOR.
Crc32Polynomial == <<4, 193, 29, 183>>

RECURSIVE Crc32Bits(_, _)
\* j shifts of the register r.
Crc32Bits(r, j) ==
    IF j = 0 THEN r
    ELSE Crc32Bits(IF r[1] >= 128 THEN XorWord(ShiftLeft1(r), Crc32Polynomial)
                                  ELSE ShiftLeft1(r), j - 1)

RECURSIVE Crc32Range(_, _, _, _)
\* The register after bytes[lo..hi] were fed in, in order.
Crc32Range(r, bytes, lo, hi) ==
    IF lo > hi THEN r
    ELSE IF lo = hi THEN Crc32Bits(XorWord(r, <<bytes[lo], 0, 0, 0>>), 8)
    ELSE LET mid == (lo + hi) \div 2
             left == Crc32Range(r, bytes, lo, mid)
         IN  IF Len(left) = 4 THEN Crc32Range(left, bytes, mid + 1, hi)
             ELSE left

\* The bytes from..to of a sink, a page, with the checksum field set to zero.
ZeroedPage(bytes, from, to) ==
    [i \in 1..(to - from) |-> IF i \in 23..26 THEN 0 ELSE bytes[from + i]]

\* The checksum field of the last of the pages ps, which starts after `from`
\* bytes of the sink, is the CRC-32 of the page with that field zeroed.
LastChecksumRight(bytes, ps, from) ==
    Reverse(ps[Len(ps)].crc)
        = Crc32Range(<<0, 0, 0, 0>>, ZeroedPage(bytes, from, ps[Len(ps)].end), 1,
                     ps[Len(ps)].end - from)

\* C14: the checksum field of every page written, read little-endian, is the
\* CRC-32 of all bytes of the page with that field set to zero.  It is stated
\* of the page written last: every page is that one in the state its Encode
\* call leads to, and a sink is only ever appended to.
C14_Checksum ==
    \A f \in DOMAIN calls :
        OkPrefix(calls[f], 1) = Len(calls[f]) /\ Len(calls[f]) > 0 =>
            \E ps \in {Pages(f)} :
                LastChecksumRight(fs[f], ps,
                                  IF Len(ps) = 1 THEN 0 ELSE ps[Len(ps) - 1].end)

\* C14 witness: a page of three segments (510 bytes) was written, with a
\* checksum that is not zero.
C14_Witness ==
    /\ encPc = "ready"
    /\ OkPrefix(calls[1], 1) >= 3
    /\ Len(Pages(1)[3].body) = 510
    /\ Pages(1)[3].crc # <<0, 0, 0, 0>>

\* C16 (as stated): a snapshot taken after the bot moved to another channel
\* yields no packet that the bot received while it was in a previous channel.
C16_NoOldChannelAudio ==
    \A r \in Readers :
        pcR[r] = "cb" =>
            \A i \in 1..Len(yielded[r]) :
                capturedIn[yielded[r][i].Opus] >= snap[r].channel

(***************************************************************************)
(* Properties of the header packets, checked under SpecHdr.                *)
(***************************************************************************)
\* The header encoded last is an identification header.
IsIdHeader == header # <<>> /\ "ChannelCount" \in DOMAIN header

\* The header encoded last is a comment header.
IsCommentHeader == header # <<>> /\ "VendorString" \in DOMAIN header

Least(S) == CHOOSE x \in S : \A y \in S : x <= y

\* The packets the build has kept so far: not too old when they were looked at.
Eligible == {i \in 1..Len(seen) : seen[i].age < recordingDuration}

\* The speakers of the packets kept.
EligibleSSRCs == {seen[i].pkt.SSRC : i \in Eligible}

\* The first packet kept of speaker s.
FirstEligible(s) == seen[Least({i \in Eligible : seen[i].pkt.SSRC = s})].pkt

\* The file of speaker s.
FileOf(s) == streams[s].encoder.writer

\* The Encode calls on file f that wrote a whole page of real audio.
RealFrames(f) ==
    {i \in 1..Len(calls[f]) : /\ i > 2
                              /\ calls[f][i].end = "ok"
                              /\ calls[f][i].packetData # silentFrame}

\* The silent frames written to file f strictly between its calls i and j.
SilentBetween(f, i, j) ==
    Cardinality({k \in (i + 1)..(j - 1) : /\ calls[f][k].end = "ok"
                                          /\ calls[f][k].packetData = silentFrame})

\* The packet received with the given payload.
PacketOf(opus) == added[CHOOSE k \in 1..Len(added) : added[k].Opus = opus]

\* C5 (as stated): in the file of every speaker, the silent frames before the
\* first real frame hold exactly d * 48000 samples/s, d being the capture time
\* of the speaker's first kept packet after streamStartTime.
C5_LeadInSilence ==
    \A s \in DOMAIN streams :
        RealFrames(FileOf(s)) # {} =>
            SilentBetween(FileOf(s), 2, Least(RealFrames(FileOf(s)))) * FrameSize
                = SamplesIn(FirstEligible(s).Time - streamStartTime[1])

\* C6: between two real frames that follow each other in a speaker's file,
\* whose sample indexes differ by (n + 1) * 960, there are exactly n silent
\* frames (none when n = 0).
C6_GapSilence ==
    \A s \in DOMAIN streams :
        \A i, j \in RealFrames(FileOf(s)) :
            (i < j /\ \A k \in RealFrames(FileOf(s)) : ~(i < k /\ k < j)) =>
                (SilentBetween(FileOf(s), i, j) + 1) * FrameSize
                    = PacketOf(calls[FileOf(s)][j].packetData).PCMIndex
                        - PacketOf(calls[FileOf(s)][i].packetData).PCMIndex

\* C6 witness: two silent frames stand between two real frames of a file, and
\* in another place two real frames follow each other directly.
C6_Witness ==
    \E s \in DOMAIN streams :
        \E i, j \in RealFrames(FileOf(s)) :
            /\ j = i + 3
            /\ SilentBetween(FileOf(s), i, j) = 2
            /\ PacketOf(calls[FileOf(s)][j].packetData).PCMIndex
                 = PacketOf(calls[FileOf(s)][i].packetData).PCMIndex + 3 * FrameSize

\* Encode was called with the payload of packet i of the snapshot.
EncodeCalled(i) ==
    \E f \in 1..Len(calls) :
       \E k \in 1..Len(calls[f]) : calls[f][k].packetData = seen[i].pkt.Opus

\* C26: in a build, only packets younger than recordingDuration when they are
\* looked at are encoded, and all of them are while no call has failed; the
\* others create no stream state and no file; streamStartTime is the capture
\* time of the first packet kept, in snapshot order, for the rest of the build.
C26_AgeFilter ==
    /\ \A i \in 1..Len(seen) : EncodeCalled(i) => seen[i].age < recordingDuration
    /\ result \in {"", "nil"} => \A i \in Eligible : EncodeCalled(i)
    /\ DOMAIN streams \subseteq EligibleSSRCs
    /\ Len(fs) <= Cardinality(EligibleSSRCs)
    /\ streamStartTime = IF Eligible = {} THEN <<>>
                         ELSE <<seen[Least(Eligible)].pkt.Time>>

\* C26 witness: a build succeeded in which a speaker's only packet was exactly
\* recordingDuration old and skipped, and a later packet was kept and gave
\* streamStartTime.
C26_Witness ==
    /\ result = "nil"
    /\ \E i, j \in 1..Len(seen) :
          /\ i < j
          /\ seen[i].age = recordingDuration
          /\ seen[i].pkt.SSRC \notin DOMAIN streams
          /\ j = Least(Eligible)
          /\ streamStartTime = <<seen[j].pkt.Time>>
          /\ seen[j].pkt.Time > seen[i].pkt.Time

\* C32 (as stated): the age filter is one cutoff per build: once a packet of
\* the snapshot has been encoded, every later packet of the snapshot captured
\* no earlier is encoded too while no call fails, although the clock is read
\* again for every packet and may have advanced; the packets encoded are the
\* last ones of the snapshot.
C32_OneCutoff ==
    result \in {"", "nil"} =>
        \A i, j \in 1..Len(seen) :
            (i < j /\ EncodeCalled(i) /\ seen[j].pkt.Time >= seen[i].pkt.Time)
                => EncodeCalled(j)

\* The kept packets of speaker s have strictly increasing sample indexes, in
\* snapshot order.
IncreasingSamples(s) ==
    \A i, j \in Eligible :
        (i < j /\ seen[i].pkt.SSRC = s /\ seen[j].pkt.SSRC = s)
            => seen[i].pkt.PCMIndex < seen[j].pkt.PCMIndex

\* The Encode calls that wrote a page to file f after its two header pages.
AudioPages(f) == {k \in 3..Len(calls[f]) : calls[f][k].end = "ok"}

\* C38: when the kept packets of a speaker have strictly increasing sample
\* indexes, the granule positions of the pages written to the speaker's file
\* after the two header pages, silent and real ones, are strictly increasing
\* in the order they were written.
C38_GranulesIncrease ==
    \A s \in DOMAIN streams :
        IncreasingSamples(s) =>
            \A i, j \in AudioPages(FileOf(s)) :
                i < j => calls[FileOf(s)][i].granulePosition
                            < calls[FileOf(s)][j].granulePosition

\* C38 witness: a build succeeded that wrote to a file, after its header
\* pages, a real frame, two silent frames and a real frame.
C38_Witness ==
    /\ result = "nil"
    /\ \E s \in DOMAIN streams :
          /\ AudioPages(FileOf(s)) = 3..6
          /\ calls[FileOf(s)][4].packetData = silentFrame
          /\ calls[FileOf(s)][5].packetData = silentFrame
          /\ calls[FileOf(s)][6].packetData # silentFrame

\* C7: when Create has returned, it returned NoAudioData exactly if the
\* snapshot was empty or all its packets were at least recordingDuration old
\* when looked at; and then no file was created and the mixer was not called.
C7_NoAudioData ==
    bpc = "done" =>
        IF \A i \in 1..Len(seen) : seen[i].age >= recordingDuration
        THEN /\ Len(seen) = size
             /\ result = "NoAudioData"
             /\ fs = <<>>
             /\ mixed = <<>>
        ELSE result # "NoAudioData"

\* C7 witness: Create has returned on a snapshot of packets that were all too
\* old, one of them exactly recordingDuration old.
C7_Witness ==
    /\ bpc = "done"
    /\ result = "NoAudioData"
    /\ Len(seen) > 1
    /\ \A i \in 1..Len(seen) : seen[i].age >= recordingDuration
    /\ \E i \in 1..Len(seen) : seen[i].age = recordingDuration

\* C8: after a successful build there is exactly one file per speaker among
\* the packets kept, and every payload kept is in a real frame of its
\* speaker's file and in no other file.
C8_OneFilePerSpeaker ==
    result = "nil" =>
        /\ Len(files) = Cardinality(EligibleSSRCs)
        /\ Len(fs) = Len(files)
        /\ DOMAIN streams = EligibleSSRCs
        /\ \A s, t \in EligibleSSRCs : FileOf(s) = FileOf(t) => s = t
        /\ \A s \in EligibleSSRCs : \E k \in 1..Len(files) : files[k] = FileOf(s)
        /\ mixed = <<files>>
        /\ \A i \in Eligible :
              \A f \in 1..Len(fs) :
                 (\E k \in RealFrames(f) : calls[f][k].packetData = seen[i].pkt.Opus)
                     <=> f = FileOf(seen[i].pkt.SSRC)

\* C8 witness: a successful build of the packets of two speakers, one of whom
\* has two packets kept.
C8_Witness ==
    /\ result = "nil"
    /\ Cardinality(EligibleSSRCs) = 2
    /\ Len(files) = 2
    /\ Cardinality(Eligible) = 3

\* The Encode calls of the build that failed on a write, as <<file, call>>.
FailedCalls ==
    {c \in UNION {{<<f, k>> : k \in 1..Len(calls[f])} : f \in 1..Len(calls)} :
        calls[c[1]][c[2]].end = "error"}

\* The packet the build read last.
LastSeen == seen[Len(seen)].pkt

\* C19: a failure of CreateTemp, of NewEncoder or of a page write ends the
\* build at the packet it happened on: Create has returned the error that wraps
\* the failure, the failed call is the only failed one and the last on its
\* file, it belongs to the packet read last, nothing of a packet not yet read
\* is in any file, and ffmpeg was not run.
C19_AbortOnFailure ==
    /\ FailedCalls # {} => result \in {ErrNewEncoder, ErrEncode}
    /\ result \in {ErrCreateTemp, ErrNewEncoder, ErrEncode} =>
          /\ bpc = "done"
          /\ mixed = <<>>
          /\ result # "NoAudioData"
          /\ Len(seen) \in Eligible
          /\ Cardinality(FailedCalls) = IF result = ErrCreateTemp THEN 0 ELSE 1
          /\ \A c \in FailedCalls :
                /\ c[2] = Len(calls[c[1]])
                /\ IF result = ErrEncode
                   THEN /\ LastSeen.SSRC \in DOMAIN streams
                        /\ c[1] = FileOf(LastSeen.SSRC)
                        /\ c[2] > 2
                   ELSE /\ LastSeen.SSRC \notin DOMAIN streams
                        /\ c[1] = Len(fs)
                        /\ c[2] <= 2
          /\ result = ErrCreateTemp => LastSeen.SSRC \notin DOMAIN streams
          /\ \A f \in 1..Len(calls) :
                \A k \in 3..Len(calls[f]) :
                   calls[f][k].packetData # silentFrame =>
                      \E j \in Eligible : seen[j].pkt.Opus = calls[f][k].packetData

\* C19 witness: a page write failed on the second packet read while a packet
\* was still unread.
C19_Witness ==
    /\ result = ErrEncode
    /\ Len(seen) = 2
    /\ HasNext(bIter)

\* A build is between its start and the return of create.
Building == bpc \in {"loop", "mixed"}

\* C33: from the start of a build until the mixer has returned and the files
\* of the speakers have been removed, Create holds the read lock and no Add
\* and no Reset takes effect on the buffer.
C33_LockHeldThroughMix ==
    [][Building => /\ "create" \in rwReaders
                   /\ UNCHANGED <<buffer, size, nextPosition>>]_vars

\* C33 witness: the mixer has returned for a build with a file while the
\* listener waits in Lock with a packet and the manager waits in Lock for
\* its Reset.
C33_Witness ==
    /\ bpc = "mixed"
    /\ Len(mixed) > 0
    /\ pcW["listener"] = "drain"
    /\ pcW["manager"] = "lock"

\* C34: a join request for the channel the bot is connected to changes
\* nothing: the buffer keeps its contents, size and write cursor, no join and
\* no move is issued, and the listener and its stop channel are left alone.
C34_SameChannelNoChange ==
    [][(/\ Len(issued') = Len(issued) + 1
        /\ currentChannel # NoChannel
        /\ issued'[Len(issued')].ask = currentChannel)
          => /\ issued'[Len(issued')].op = "none"
             /\ UNCHANGED <<buffer, size, nextPosition, currentChannel,
                            listeners, stopListenersCh, closed>>]_vars

\* C34 witness: a request for the channel the bot is in was handled while
\* the buffer held two packets, and the listener's stop channel is open.
C34_Witness ==
    /\ Len(issued) > 1
    /\ issued[Len(issued)].op = "none"
    /\ issued[Len(issued)].ask = currentChannel
    /\ size = 2
    /\ stopListenersCh \notin closed

\* C36 (as stated): the ready channel of a Run is closed at most once,
\* however many Ready events the session delivers while the handler is
\* registered.
C36_ReadyClosedOnce == process.closes <= 1

\* C37 (as stated): once the interrupt has cancelled the context, Run
\* returns and the process exits with status 0, and runBot is not called
\* again.
C37_InterruptExits ==
    /\ process.ctxDone ~> (process.pc = "exit" /\ process.status = 0)
    /\ [][(process.ctxDone /\ process.starts > 0)
             => ~(process.pc = "loop" /\ process'.pc = "registered")]_vars

\* C31 (as stated): when Create has returned, however it ended, every
\* temporary file created during the build has been removed.
C31_FilesRemoved ==
    bpc = "done" => \A f \in 1..Len(fs) : f \in removed

(***************************************************************************)
(* Properties of the panics of the ogg package, checked under SpecPage.    *)
(***************************************************************************)
\* The length of a payload that needs more than maxSegments segment-table
\* entries.
TooLong(length) == length >= maxSegments * maxSegmentLength

\* C20: an Encode call with a payload of 65025 bytes or more panics, and the
\* step leaves the sink and the encoder (its sequence number and first-page
\* flag) as they were; an AddSegment call with a segment of more than 255
\* bytes panics, and the step leaves the page as it was.
C20_PanicBeforeEffect ==
    [][/\ \A f \in 1..Len(calls) :
             (/\ Len(calls'[f]) = Len(calls[f]) + 1
              /\ TooLong(calls'[f][Len(calls'[f])].length)) =>
                 /\ calls'[f][Len(calls'[f])].end = "panic"
                 /\ encPc' = "panicked"
                 /\ fs' = fs
                 /\ encoder' = encoder
       /\ (segCalls' = segCalls + 1 /\ Len(segmentArg') > maxSegmentLength) =>
             /\ pagePc' = "panicked"
             /\ openPage' = openPage]_vars

\* C20 witness: Encode has panicked on a payload of 65025 bytes after a page
\* of audio was written, and AddSegment has panicked on a segment of 256
\* bytes given to a page that held one segment of 255 bytes.
C20_Witness ==
    /\ encPc = "panicked"
    /\ Len(calls[1]) = 4
    /\ calls[1][4].length = 65025
    /\ encoder[1].sequenceNumber = 4
    /\ pagePc = "panicked"
    /\ Len(segmentArg) = 256
    /\ openPage[1].Header.SegmentTable = <<255>>

(***************************************************************************)
(* Properties of the synchronizer across a wrap of the timestamp, checked  *)
(* under SpecSync.                                                         *)
(***************************************************************************)
\* The silent frames written just before call i of the stream.
SilentBefore(i) ==
    Cardinality({j \in 1..(i - 1) :
                    \A k \in j..(i - 1) : syncOut[k].silent})

\* C21 (as stated): the speaker's counter is taken cyclically: before every
\* real frame there are as many silent frames as frames were lost, also when
\* the uint32 timestamp has wrapped, and the granule positions written to the
\* speaker's file increase from each page to the next.
C21_CyclicCounter ==
    /\ \A i \in 2..Len(syncOut) :
          ~syncOut[i].silent => SilentBefore(i) = syncOut[i].missed
    /\ \A i \in 1..(Len(syncOut) - 1) :
          syncOut[i].granule < syncOut[i + 1].granule

\* C27 (as stated): the k >= 1 silent frames written before a real frame of
\* sample index s have the granule positions s - k * 960, ..., s - 960, right
\* before the real frame's, whatever the gap, and the real frame has granule
\* position s.
C27_SilentGranules ==
    \A i \in 1..Len(syncOut) :
        ~syncOut[i].silent =>
            \A m \in 1..SilentBefore(i) :
                /\ syncOut[i - m].silent
                /\ syncOut[i - m].granule = syncOut[i].granule - m * UnitFrameSize

(***************************************************************************)
(* Properties of successive builds, checked under SpecTwice.               *)
(***************************************************************************)
\* Two calls of Create read the same packets at the same ages, for the same
\* duration.
SameInput(x, y) ==
    x.seen = y.seen /\ x.recordingDuration = y.recordingDuration

\* C29: two builds over the same buffer contents, with the same now and the
\* same duration, return the same and write the same bytes, hence the same
\* pages, to the file of every speaker, whatever was built before.
C29_BuildsIndependent ==
    \A j, k \in 1..Len(earlier) :
        SameInput(earlier[j], earlier[k]) =>
            /\ earlier[j].result = earlier[k].result
            /\ earlier[j].written = earlier[k].written

\* C29 witness: two builds of the same three packets of two speakers have
\* returned, both without error.
C29_Witness ==
    /\ Len(earlier) = 2
    /\ SameInput(earlier[1], earlier[2])
    /\ Len(earlier[2].seen) = 3
    /\ DOMAIN earlier[2].written = SSRCs
    /\ earlier[2].result = "nil"

(***************************************************************************)
(* Properties of the listener goroutines, checked under SpecListen.        *)
(***************************************************************************)
\* C30 (as stated): once the disconnect that closes the stop channel of
\* goroutine k has been handled, the goroutine eventually returns, wherever
\* it was when the channel was closed and whatever m.stopListenersCh holds
\* afterwards.
C30_ListenerStops ==
    \A k \in 1..MaxConnects :
        (k \in closed) ~> (k \in 1..Len(listeners) /\ listeners[k].pc = "return")

(***************************************************************************)
(* Properties of the Bot, checked under SpecJoin and SpecBot.              *)
(***************************************************************************)
\* The users with a voice state in channel c.
Members(c) == {vs.UserID : vs \in {v \in voiceStates : v.ChannelID = c}}

\* Those of them that are neither self-muted nor self-deafened.
Speakers(c) ==
    {vs.UserID : vs \in {v \in voiceStates :
                            v.ChannelID = c /\ ~v.SelfMute /\ ~v.SelfDeaf}}

\* joinVoiceChannel has just sent a channel to the manager.
Asks == joinAsk = NoAsk /\ joinAsk' # NoAsk

Ran == handled # <<>> /\ handled[1].outcome = "run"

\* w is the number of whole seconds in t tenths of a second.
WholeSeconds(w, t) ==
    IF t >= 0 THEN 10 * w <= t /\ t < 10 * w + 10
    ELSE 10 * w - 10 < t /\ t <= 10 * w

\* C25: the duration handed to the replay command is at most one minute: 30 s
\* for an interaction without option, otherwise the requested number of whole
\* seconds, or 60 s if that is more.
C25_DurationAtMostOneMinute ==
    Ran =>
        /\ handled[1].duration[1] <= 60
        /\ handled[1].i.Options = <<>> => handled[1].duration[1] = 30
        /\ handled[1].i.Options # <<>> =>
              \E w \in -2..1000 :
                 /\ WholeSeconds(w, handled[1].i.Options[1].Tenths)
                 /\ handled[1].duration[1] = IF w > 60 THEN 60 ELSE w

\* C25 witness: a replay of 60 s was run for a request of 900 s.
C25_Witness ==
    /\ Ran
    /\ handled[1].i.Options # <<>>
    /\ handled[1].i.Options[1].Tenths = 9000
    /\ handled[1].duration = <<60>>

\* The handler returns in this step, having handled an interaction.
Completes == handled' # <<>> /\ (request' # request \/ handled' # handled)

\* The request of h is authorized: it comes from the configured guild, the
\* bot was connected when the handler read its channel, the requester is a
\* member of the guild and no bot, and sits in that channel in `states`.
Authorized(h, states) ==
    /\ h.i.GuildID = "guild"
    /\ h.currentChannel # NoChannel
    /\ h.i.Member.Member /\ h.i.Member.User /\ ~h.i.Member.Bot
    /\ \E vs \in states :
          vs.UserID = h.i.Member.ID /\ vs.ChannelID = h.currentChannel

\* C28: b.replayCmd.Run is called only for an authorized request, the
\* requester being in the channel the handler read as the bot's when the
\* handler looks the requester up; every other request is rejected with a
\* message or discarded, and no replay is built for it.
C28_OnlyAuthorizedReplays ==
    [][Completes =>
         /\ handled'[1].outcome = "run" => Authorized(handled'[1], voiceStates)
         /\ ~Authorized(handled'[1], voiceStates) =>
               handled'[1].outcome \in
                  {"discarded", "error", "not connected", "not in a server",
                   "not in the voice channel"}]_vars

\* C28 witness: a replay was run for u1, who sits in the channel the handler
\* read, and the last request was handled to its end.
C28_Witness ==
    /\ Ran
    /\ request = <<>>
    /\ handled[1].i.Member.ID = "u1"
    /\ handled[1].i.GuildID = "guild"
    /\ \E vs \in voiceStates :
          vs.UserID = "u1" /\ vs.ChannelID = handled[1].currentChannel

====
